---- MODULE Spec2Model ----
(***************************************************************************)
(* Host-authoritative phase engine of the Gnosia party game                *)
(* (GameManager in game-manager.js, driven by UIManager in ui-manager.js). *)
(*                                                                         *)
(* The Document Store is modelled by the variables room, players,          *)
(* settings, gameState, votes, nightActions, deathLog and voteHistory.     *)
(* The host client's local state is the set of live setInterval tasks      *)
(* (timers, activeTimer, the check intervals) and the invocations of the   *)
(* asynchronous aggregation checks that are suspended at an await.         *)
(***************************************************************************)
EXTENDS Integers, Sequences, FiniteSets, Bags, TLC

VARIABLES
    room,          \* rooms/{code}: [status, day]
    players,       \* rooms/{code}/players: id -> [isHost, isAlive, role, roleReadConfirmed]
    settings,      \* rooms/{code}/settings/main: [roles]
    gameState,     \* rooms/{code}/gameState/current: [exists, phase, version, payload]
    votes,         \* rooms/{code}/votes: voterId -> targetId
    nightActions,  \* rooms/{code}/nightActions: actorId -> [type, targetId, submittedAt]
    deathLog,      \* rooms/{code}/deathLog: victimId -> [cause, day, role]
    voteHistory,   \* rooms/{code}/voteHistory: bag of [day, voterId, targetId]
    timers,        \* host: live countdown intervals, handle -> [phase, remaining]
    activeTimer,   \* host: this.activeTimer, a handle of timers or 0
    roleCheckOn,   \* host: the checkAllPlayersReadRole interval is live
    voteCheckOn,   \* host: the checkAllVoted interval is live
    pendRead,      \* checkAllPlayersReadRole calls suspended after their setState
    pendVoted,     \* checkAllVoted calls suspended before their processVotes
    pendImp,       \* checkImpostorSubmitted calls suspended before processMorning
    games,         \* the games started in this room so far
    client,        \* a subscribed client: [localVersion, localPhase, screen, renderQ, pulled, idle]
    inbox,         \* gameState snapshots on their way to that client's listener
    currentPlayer, \* each client's this.currentRoom and this.currentPlayer.isHost
    pendJoin,      \* joinRoom calls suspended between their reads and their setDoc
    pendStart,     \* startGameBtn handlers suspended after their validation
    pendClear      \* transitionToVoting between its awaits, with the deletes it has issued

vars == <<room, players, settings, gameState, votes, nightActions, deathLog,
          voteHistory, timers, activeTimer, roleCheckOn, voteCheckOn,
          pendRead, pendVoted, pendImp, games, client, inbox, currentPlayer,
                   pendJoin, pendStart, pendClear>>

\* the documents and the host's tasks that the operations read and write
world == [room |-> room, players |-> players, settings |-> settings,
          gameState |-> gameState, votes |-> votes,
          nightActions |-> nightActions, deathLog |-> deathLog,
          voteHistory |-> voteHistory, timers |-> timers,
          activeTimer |-> activeTimer, voteCheckOn |-> voteCheckOn]

Commit(w) ==
    /\ room' = w.room
    /\ players' = w.players
    /\ settings' = w.settings
    /\ gameState' = w.gameState
    /\ votes' = w.votes
    /\ nightActions' = w.nightActions
    /\ deathLog' = w.deathLog
    /\ voteHistory' = w.voteHistory
    /\ timers' = w.timers
    /\ activeTimer' = w.activeTimer
    /\ voteCheckOn' = w.voteCheckOn

----------------------------------------------------------------------------
\* Bounds of the model

MaxGames == 1       \* no game is started after this many
MaxVersion == 9    \* no gameState write once version has reached this
MaxDay == 3         \* no night is resolved once room.day has reached this
MaxReadInflight == 2    \* suspended checkAllPlayersReadRole calls
MaxVotedInflight == 1   \* suspended checkAllVoted calls
MaxImpInflight == 2     \* suspended checkImpostorSubmitted calls
MaxHistory == 8     \* no vote is archived beyond this many voteHistory docs
TimerSecs == 1      \* settings.timers.meeting / vote / break, in ticks

Host == "h"
Users == {"h", "a", "b", "c"}
\* document order of a snapshot of the players, votes or nightActions
UserOrder == <<"a", "b", "c", "d", "e", "h">>

none == "none"      \* null / undefined / absent

\* the players that receive votes in the rounds explored
Candidates == {"h", "a"}

----------------------------------------------------------------------------
\* Roles and phases

RoleOrder == <<"citizen", "impostor", "engineer", "doctor", "fallen_angel",
               "guard_duty", "impostor_follower", "bug">>

RoleIds == {RoleOrder[i] : i \in 1..Len(RoleOrder)}

GAME_PHASES == {"LOBBY", "ROLE_REVEAL", "MEETING_DISCUSSION", "VOTING",
                "VOTE_RESULT", "BREAK", "NIGHT_SPECIAL", "NIGHT_IMPOSTOR",
                "MORNING_ANNOUNCEMENT", "GAME_RESULT"}

NoRoles == [r \in RoleIds |-> 0]

\* the role counts createRoom writes to settings/main
DefaultRoles == [r \in RoleIds |->
    CASE r = "citizen" -> 4
      [] r = "impostor" -> 2
      [] r \in {"engineer", "doctor", "fallen_angel"} -> 1
      [] OTHER -> 0]

\* the role counts the host enters in the lobby form
RoleConfigs == {
    [NoRoles EXCEPT !["impostor"] = 1, !["engineer"] = 1, !["citizen"] = 2],
    [NoRoles EXCEPT !["citizen"] = 4] }

----------------------------------------------------------------------------
\* Helpers

RECURSIVE SumSeq(_)
SumSeq(s) == IF s = <<>> THEN 0 ELSE Head(s) + SumSeq(Tail(s))

\* Object.values(roles).reduce((a, b) => a + b, 0)
totalRoles(rc) == SumSeq([i \in 1..Len(RoleOrder) |-> rc[RoleOrder[i]]])

Repeat(x, k) == [i \in 1..k |-> x]

Drop(f, k) == [x \in DOMAIN f \ {k} |-> f[x]]

\* the docs of a players snapshot, in document order
Snapshot(ps) == SelectSeq(UserOrder, LAMBDA u : u \in DOMAIN ps)

\* this.currentPlayer.isHost of the client of p
IsHost(p) == currentPlayer[p].isHost

----------------------------------------------------------------------------
\* Authoritative state (setState, getState, resetGameState)

\* UIManager.renderScreen on the host: cleanupListeners clears the intervals
\* registered in activeListeners
renderScreen(w) == [w EXCEPT !.voteCheckOn = FALSE]

\* setState without increment(1): the stored version is left as it is
setStateNoIncrement(me, w, phase, additionalData) ==
    IF ~IsHost(me) THEN w
    ELSE [w EXCEPT !.voteCheckOn = FALSE,
                   !.gameState = [exists |-> TRUE, phase |-> phase,
                                  version |-> w.gameState.version,
                                  payload |-> additionalData
                                                  @@ w.gameState.payload]]

\* setDoc(gameStateRef, {phase, version: increment(1), ...additionalData},
\* {merge: true}); the host's own listener re-renders on the new version
setState(me, w, phase, additionalData) ==
    IF ~IsHost(me) THEN w
    ELSE renderScreen([w EXCEPT !.gameState =
            [exists |-> TRUE,
             phase |-> phase,
             version |-> w.gameState.version + 1,
             payload |-> additionalData @@ w.gameState.payload]])

\* resetGameState without the deletion of the voteHistory collection
resetGameStateKeepsHistory(me, w) ==
    IF ~IsHost(me) THEN w
    ELSE [w EXCEPT
            !.players = [p \in DOMAIN w.players |->
                [w.players[p] EXCEPT !.isAlive = TRUE, !.role = "none",
                                     !.roleReadConfirmed = FALSE]],
            !.votes = << >>,
            !.nightActions = << >>,
            !.deathLog = << >>,
            !.room = [status |-> "lobby", day |-> 1],
            !.voteCheckOn = FALSE,
            !.gameState = [exists |-> TRUE, phase |-> "LOBBY",
                           version |-> 0, payload |-> << >>]]

resetGameStateMerge(me, w) ==
    IF ~IsHost(me) THEN w
    ELSE [w EXCEPT
            !.players = [p \in DOMAIN w.players |->
                [w.players[p] EXCEPT !.isAlive = TRUE, !.role = "none",
                                     !.roleReadConfirmed = FALSE]],
            !.votes = << >>,
            !.nightActions = << >>,
            !.deathLog = << >>,
            !.voteHistory = EmptyBag,
            !.room = [status |-> "lobby", day |-> 1],
            !.voteCheckOn = FALSE,
            !.gameState = [exists |-> TRUE, phase |-> "LOBBY",
                           version |-> 0, payload |-> w.gameState.payload]]

EmptyDocs == << >>

resetGameState(me, w) ==
    IF ~IsHost(me) THEN w
    ELSE LET fresh == [w EXCEPT
                !.players = [p \in DOMAIN w.players |->
                    [w.players[p] EXCEPT !.isAlive = TRUE, !.role = none,
                                         !.roleReadConfirmed = FALSE]],
                !.votes = EmptyDocs,
                !.nightActions = EmptyDocs,
                !.deathLog = EmptyDocs,
                !.voteHistory = EmptyBag,
                !.room = [status |-> "lobby", day |-> 1],
                !.gameState = [exists |-> TRUE, phase |-> "LOBBY",
                               version |-> 0, payload |-> << >>]]
         IN  IF fresh.gameState.version # w.gameState.version
             THEN renderScreen(fresh) ELSE fresh

\* the collections resetGameState clears, in the order it clears them
ResetSteps == <<"players", "votes", "nightActions", "deathLog",
                "voteHistory">>

\* the docs one step of resetGameState writes
ResetDocs(w, step) ==
    IF ResetSteps[step] = "players" THEN DOMAIN w.players
    ELSE IF ResetSteps[step] = "votes" THEN DOMAIN w.votes
    ELSE IF ResetSteps[step] = "nightActions" THEN DOMAIN w.nightActions
    ELSE IF ResetSteps[step] = "deathLog" THEN DOMAIN w.deathLog
    ELSE DOMAIN w.voteHistory

\* resetGameState when the write of one doc is rejected: the other writes of
\* that Promise.all are done, the catch block logs the error and every later
\* step of the try block is skipped
resetGameStateFailing(me, w, step, failed) ==
    IF ~IsHost(me) THEN w
    ELSE LET skip(k) == IF k = step THEN {failed} ELSE {}
             s1 == [w EXCEPT !.players = [p \in DOMAIN w.players |->
                        IF p \in skip(1) THEN w.players[p]
                        ELSE [w.players[p] EXCEPT
                                 !.isAlive = TRUE, !.role = none,
                                 !.roleReadConfirmed = FALSE]]]
             s2 == [s1 EXCEPT !.votes =
                        [d \in DOMAIN w.votes \cap skip(2) |-> w.votes[d]]]
             s3 == [s2 EXCEPT !.nightActions =
                        [d \in DOMAIN w.nightActions \cap skip(3) |->
                            w.nightActions[d]]]
             s4 == [s3 EXCEPT !.deathLog =
                        [d \in DOMAIN w.deathLog \cap skip(4) |->
                            w.deathLog[d]]]
             s5 == [s4 EXCEPT !.voteHistory =
                        SetToBag(DOMAIN w.voteHistory \cap skip(5))]
         IN  IF step = 1 THEN s1
             ELSE IF step = 2 THEN s2
             ELSE IF step = 3 THEN s3
             ELSE IF step = 4 THEN s4
             ELSE s5

----------------------------------------------------------------------------
\* Room management (createRoom, joinRoom, kickPlayer, updateSettings)

NewPlayer(isHost) ==
    [isHost |-> isHost, isAlive |-> TRUE, role |-> none,
     roleReadConfirmed |-> FALSE]

joinRoom(w, p, isHost) ==
    IF p \in DOMAIN w.players
    THEN [w EXCEPT !.players[p].isHost = isHost \/ w.players[p].isHost]
    ELSE [w EXCEPT !.players = (p :> NewPlayer(isHost)) @@ w.players]

\* the reads of joinRoom: the player doc as it is found
joinRoomRead(w, p) ==
    IF p \in DOMAIN w.players
    THEN [exists |-> TRUE, data |-> w.players[p]]
    ELSE [exists |-> FALSE, data |-> NewPlayer(FALSE)]

\* the setDoc of joinRoom, built from the data that was read
joinRoomWrite(w, p, isHost, existing) ==
    [w EXCEPT !.players =
        (p :> [isHost |-> isHost \/ existing.data.isHost,
               isAlive |-> existing.data.isAlive,
               role |-> existing.data.role,
               roleReadConfirmed |-> existing.data.roleReadConfirmed])
        @@ w.players]

\* the room, player and settings docs that createRoom writes
createRoom(w, userId) ==
    [joinRoom([w EXCEPT !.room = [status |-> "lobby", day |-> 1]],
              userId, TRUE)
        EXCEPT !.settings = [roles |-> DefaultRoles,
                             timers |-> [meeting |-> 300, vote |-> 60,
                                         break |-> 120]]]

\* no room doc / no settings doc
NoRoom == [status |-> none, day |-> 0]

NoSettings == [roles |-> NoRoles,
               timers |-> [meeting |-> 0, vote |-> 0, break |-> 0]]

\* leaveRoom of a host: status closed, the docs of the six subcollections
\* deleted, the room doc deleted; of any other player: the own player doc
\* deleted; then the local timer is cleared
leaveRoom(w, userId, isHost) ==
    LET left == IF isHost
                THEN [w EXCEPT !.room = NoRoom,
                               !.players = EmptyDocs,
                               !.votes = EmptyDocs,
                               !.nightActions = EmptyDocs,
                               !.deathLog = EmptyDocs,
                               !.gameState = [exists |-> FALSE,
                                              phase |-> "LOBBY",
                                              version |-> 0,
                                              payload |-> << >>],
                               !.settings = NoSettings]
                ELSE [w EXCEPT !.players = Drop(w.players, userId)]
    IN  IF isHost
        THEN [left EXCEPT !.timers = << >>, !.activeTimer = 0]
        ELSE left

\* kickPlayer without the isHost check
kickPlayerUnguarded(me, w, playerId) ==
    [w EXCEPT !.players = Drop(w.players, playerId)]

kickPlayer(me, w, playerId) ==
    IF ~IsHost(me) THEN w
    ELSE [w EXCEPT !.players = Drop(w.players, playerId)]

updateSettings(me, w, s) ==
    IF ~IsHost(me) THEN w
    ELSE [w EXCEPT !.settings = s @@ w.settings]

----------------------------------------------------------------------------
\* Role assignment (assignRoles, shuffleArray, startGame)

RECURSIVE Expand(_, _)
Expand(roleSettings, i) ==
    IF i > Len(RoleOrder) THEN << >>
    ELSE Repeat(RoleOrder[i], roleSettings[RoleOrder[i]])
             \o Expand(roleSettings, i + 1)

\* assignRoles with the loop bound i <= count: one entry too many per role
RECURSIVE ExpandInclusive(_, _)
ExpandInclusive(roleSettings, i) ==
    IF i > Len(RoleOrder) THEN << >>
    ELSE Repeat(RoleOrder[i], roleSettings[RoleOrder[i]] + 1)
             \o ExpandInclusive(roleSettings, i + 1)

assignRolesInclusive(playerCount, roleSettings) ==
    SubSeq(ExpandInclusive(roleSettings, 1), 1, playerCount)

assignRoles(playerCount, roleSettings) ==
    LET roles == Expand(roleSettings, 1)
        padded == IF Len(roles) < playerCount
                  THEN roles \o Repeat("citizen", playerCount - Len(roles))
                  ELSE roles
    IN  SubSeq(padded, 1, playerCount)

Swap(a, i, j) == [a EXCEPT ![i] = a[j], ![j] = a[i]]

\* every outcome of the Fisher-Yates loop: at position i (from the last down
\* to the second) j is any position up to i
RECURSIVE FisherYates(_, _)
FisherYates(a, i) ==
    IF i <= 1 THEN {a}
    ELSE UNION {FisherYates(Swap(a, i, j), i - 1) : j \in 1..i}

shuffleArray(array) == FisherYates(array, Len(array))

\* startGame after its getDocs: the roles are written to the players of
\* that snapshot, by id, then status ingame and ROLE_REVEAL
startGameAssign(me, w, ids, shuffledRoles) ==
    IF ~IsHost(me) THEN w
    ELSE LET assigned == [w EXCEPT
                !.players = [p \in DOMAIN w.players |->
                    IF \E k \in 1..Len(ids) : ids[k] = p
                    THEN LET i == CHOOSE k \in 1..Len(ids) : ids[k] = p
                         IN  [w.players[p] EXCEPT
                                 !.role = shuffledRoles[i],
                                 !.roleReadConfirmed = FALSE]
                    ELSE w.players[p]],
                !.room.status = "ingame"]
         IN  setState(me, assigned, "ROLE_REVEAL", << >>)

startGame(me, w, shuffledRoles) ==
    IF ~IsHost(me) THEN w
    ELSE LET ids == Snapshot(w.players)
             assigned == [w EXCEPT
                !.players = [p \in DOMAIN w.players |->
                    LET i == CHOOSE k \in 1..Len(ids) : ids[k] = p
                    IN  [w.players[p] EXCEPT !.role = shuffledRoles[i],
                                             !.roleReadConfirmed = FALSE]],
                !.room.status = "ingame"]
         IN  setState(me, assigned, "ROLE_REVEAL", << >>)

----------------------------------------------------------------------------
\* Countdown (startTimer and the start*Timer operations)

FreeHandle(tm) ==
    CHOOSE i \in 1..(Cardinality(DOMAIN tm) + 1) :
        /\ i \notin DOMAIN tm
        /\ \A j \in 1..(i - 1) : j \in DOMAIN tm

startTimer(w, duration, phase) ==
    LET live == IF w.activeTimer # 0 THEN Drop(w.timers, w.activeTimer)
                ELSE w.timers
        h == FreeHandle(live)
    IN  [w EXCEPT !.timers = (h :> [phase |-> phase, remaining |-> duration])
                                 @@ live,
                  !.activeTimer = h]

startMeetingTimer(me, w) ==
    IF ~IsHost(me) THEN w
    ELSE startTimer(w, w.settings.timers.meeting, "meeting")

startBreakTimer(me, w) ==
    IF ~IsHost(me) THEN w
    ELSE startTimer(w, w.settings.timers.break, "break")

startVotingTimerKeepsVotes(me, w) ==
    IF ~IsHost(me) THEN w
    ELSE startTimer(w, w.settings.timers.vote, "voting")

startVotingTimer(me, w) ==
    IF ~IsHost(me) THEN w
    ELSE startTimer([w EXCEPT !.votes = EmptyDocs],
                    w.settings.timers.vote, "voting")

transitionToVoting(me, w) ==
    IF ~IsHost(me) THEN w
    ELSE startVotingTimer(me, setState(me, w, "VOTING", << >>))

transitionToBreak(me, w) ==
    IF ~IsHost(me) THEN w
    ELSE startBreakTimer(me, setState(me, w, "BREAK", << >>))

transitionToNightKeepsActions(me, w) ==
    IF ~IsHost(me) THEN w
    ELSE setState(me, w, "NIGHT_SPECIAL", << >>)

transitionToNight(me, w) ==
    IF ~IsHost(me) THEN w
    ELSE setState(me, [w EXCEPT !.nightActions = EmptyDocs],
                  "NIGHT_SPECIAL", << >>)

----------------------------------------------------------------------------
\* Win condition (checkWinCondition, getAliveBug)

Count(S) == Cardinality(S)

getAliveBug(ps) ==
    \E p \in DOMAIN ps : ps[p].isAlive /\ ps[p].role = "bug"

\* checkWinCondition with impostor_follower counted on the impostor side
checkWinConditionFollowerCounts(ps) ==
    LET side == {"impostor", "impostor_follower"}
        aliveImpostors ==
            Count({p \in DOMAIN ps : ps[p].isAlive /\ ps[p].role \in side})
        aliveCitizens ==
            Count({p \in DOMAIN ps : ps[p].isAlive /\ ps[p].role \notin side})
        winner == IF aliveImpostors >= aliveCitizens /\ aliveImpostors > 0
                  THEN "impostor"
                  ELSE IF aliveImpostors = 0 THEN "citizen" ELSE none
    IN  IF winner # none
        THEN (IF getAliveBug(ps) THEN "bug" ELSE winner)
        ELSE none

\* checkWinCondition where a living bug takes over an impostor win only
checkWinConditionBugBeatsImpostorOnly(ps) ==
    LET aliveImpostors ==
            Count({p \in DOMAIN ps : ps[p].isAlive /\ ps[p].role = "impostor"})
        aliveCitizens ==
            Count({p \in DOMAIN ps : ps[p].isAlive /\ ps[p].role # "impostor"})
        winner == IF aliveImpostors >= aliveCitizens /\ aliveImpostors > 0
                  THEN "impostor"
                  ELSE IF aliveImpostors = 0 THEN "citizen" ELSE none
    IN  IF winner = "impostor" /\ getAliveBug(ps) THEN "bug" ELSE winner

checkWinCondition(ps) ==
    LET aliveImpostors ==
            Count({p \in DOMAIN ps : ps[p].isAlive /\ ps[p].role = "impostor"})
        aliveCitizens ==
            Count({p \in DOMAIN ps : ps[p].isAlive /\ ps[p].role # "impostor"})
        winner == IF aliveImpostors >= aliveCitizens /\ aliveImpostors > 0
                  THEN "impostor"
                  ELSE IF aliveImpostors = 0 THEN "citizen" ELSE none
    IN  IF winner # none
        THEN (IF getAliveBug(ps) THEN "bug" ELSE winner)
        ELSE none

----------------------------------------------------------------------------
\* Vote tally (processVotes, archiveVotes, proceedAfterVote)

\* the vote docs of a snapshot, in document order
\* setDoc of votes/{userId}: the voter's doc is written whole
submitVote(w, me, targetId) ==
    [w EXCEPT !.votes = (me :> targetId) @@ w.votes]

VoteDocs(vs) == SelectSeq(UserOrder, LAMBDA u : u \in DOMAIN vs)

\* voteCount[targetId] = (voteCount[targetId] || 0) + 1 over the vote docs
voteCountOf(vs) ==
    [t \in {vs[v] : v \in DOMAIN vs} |->
        Cardinality({v \in DOMAIN vs : vs[v] = t})]

\* the keys of voteCount in insertion order
RECURSIVE Keys(_, _, _)
Keys(vs, docs, seen) ==
    IF docs = << >> THEN << >>
    ELSE LET t == vs[Head(docs)]
         IN  IF t \in seen THEN Keys(vs, Tail(docs), seen)
             ELSE <<t>> \o Keys(vs, Tail(docs), seen \cup {t})

\* the loop with count >= maxVotes in its first branch: the last target with
\* the maximum replaces the others
RECURSIVE PluralityLastWins(_, _, _, _)
PluralityLastWins(voteCount, keys, maxVotes, targets) ==
    IF keys = << >> THEN targets
    ELSE IF voteCount[Head(keys)] >= maxVotes
    THEN PluralityLastWins(voteCount, Tail(keys), voteCount[Head(keys)],
                           <<Head(keys)>>)
    ELSE PluralityLastWins(voteCount, Tail(keys), maxVotes, targets)

\* the loop over Object.entries(voteCount) that keeps maxVotes and targets
RECURSIVE Plurality(_, _, _, _)
Plurality(voteCount, keys, maxVotes, targets) ==
    IF keys = << >> THEN targets
    ELSE LET playerId == Head(keys)
             count == voteCount[playerId]
         IN  IF count > maxVotes
             THEN Plurality(voteCount, Tail(keys), count, <<playerId>>)
             ELSE IF count = maxVotes
             THEN Plurality(voteCount, Tail(keys), maxVotes,
                            Append(targets, playerId))
             ELSE Plurality(voteCount, Tail(keys), maxVotes, targets)

tally(vs) ==
    Plurality(voteCountOf(vs), Keys(vs, VoteDocs(vs), {}), 0, << >>)

Elems(s) == {s[i] : i \in 1..Len(s)}

archiveVotes(w, vs) ==
    [w EXCEPT !.voteHistory = w.voteHistory (+)
        SetToBag({[day |-> w.room.day, voterId |-> v, targetId |-> vs[v]] :
                  v \in DOMAIN vs})]

\* processVotes without the updateDoc that marks the victim dead
processVotesSparesVictim(me, w) ==
    IF ~IsHost(me) THEN w
    ELSE LET votesSnap == w.votes
             voteCount == voteCountOf(votesSnap)
             targets == tally(votesSnap)
         IN  IF Len(targets) > 1
             THEN setState(me, w, "VOTE_RESULT",
                      [result |-> "tie", tiedPlayers |-> targets,
                       voteCounts |-> voteCount])
             ELSE IF Len(targets) = 0 THEN w
             ELSE LET archived == archiveVotes(w, votesSnap)
                      victimId == targets[1]
                  IN  IF victimId \notin DOMAIN archived.players
                      THEN setState(me, archived, "VOTE_RESULT",
                               [result |-> "killed", victimId |-> victimId,
                                victimName |-> "Unknown (Left)"])
                      ELSE setState(me,
                               [archived EXCEPT
                                   !.deathLog = (victimId :>
                                       [cause |-> "vote",
                                        day |-> archived.room.day,
                                        role |-> archived.players[victimId].role])
                                       @@ archived.deathLog],
                               "VOTE_RESULT",
                               [result |-> "killed", victimId |-> victimId,
                                victimName |-> victimId,
                                voteCounts |-> voteCount])

\* an empty tally leaves victimId undefined and doc(...) raises: nothing
\* is written
processVotesStallsOnMissing(me, w) ==
    IF ~IsHost(me) THEN w
    ELSE LET votesSnap == w.votes
             voteCount == voteCountOf(votesSnap)
             targets == tally(votesSnap)
         IN  IF Len(targets) > 1
             THEN setState(me, w, "VOTE_RESULT",
                      [result |-> "tie", tiedPlayers |-> targets,
                       voteCounts |-> voteCount])
             ELSE IF Len(targets) = 0 THEN w
             ELSE LET archived == archiveVotes(w, votesSnap)
                      victimId == targets[1]
                  IN  IF victimId \notin DOMAIN archived.players
                      THEN archived
                      ELSE setState(me,
                               [archived EXCEPT
                                   !.players[victimId].isAlive = FALSE,
                                   !.deathLog = (victimId :>
                                       [cause |-> "vote",
                                        day |-> archived.room.day,
                                        role |-> archived.players[victimId].role])
                                       @@ archived.deathLog],
                               "VOTE_RESULT",
                               [result |-> "killed", victimId |-> victimId,
                                victimName |-> victimId,
                                voteCounts |-> voteCount])

processVotes(me, w) ==
    IF ~IsHost(me) THEN w
    ELSE LET votesSnap == w.votes
             voteCount == voteCountOf(votesSnap)
             targets == tally(votesSnap)
         IN  IF Len(targets) > 1
             THEN setState(me, w, "VOTE_RESULT",
                      [result |-> "tie", tiedPlayers |-> targets,
                       voteCounts |-> voteCount])
             ELSE IF Len(targets) = 0 THEN w
             ELSE LET archived == archiveVotes(w, votesSnap)
                      victimId == targets[1]
                  IN  IF victimId \notin DOMAIN archived.players
                      THEN setState(me, archived, "VOTE_RESULT",
                               [result |-> "killed", victimId |-> victimId,
                                victimName |-> "Unknown (Left)"])
                      ELSE setState(me,
                               [archived EXCEPT
                                   !.players[victimId].isAlive = FALSE,
                                   !.deathLog = (victimId :>
                                       [cause |-> "vote",
                                        day |-> archived.room.day,
                                        role |-> archived.players[victimId].role])
                                       @@ archived.deathLog],
                               "VOTE_RESULT",
                               [result |-> "killed", victimId |-> victimId,
                                victimName |-> victimId,
                                voteCounts |-> voteCount])

Field(gs, f) == IF f \in DOMAIN gs.payload THEN gs.payload[f] ELSE none

proceedAfterVote(me, w) ==
    IF ~IsHost(me) THEN w
    ELSE IF ~w.gameState.exists THEN w
    ELSE IF Field(w.gameState, "result") = "tie"
    THEN startMeetingTimer(me, setState(me, w, "MEETING_DISCUSSION", << >>))
    ELSE IF Field(w.gameState, "result") = "killed"
    THEN LET winner == checkWinCondition(w.players)
         IN  IF winner # none
             THEN setState(me, w, "GAME_RESULT", [winner |-> winner])
             ELSE startBreakTimer(me, setState(me, w, "BREAK", << >>))
    ELSE w

----------------------------------------------------------------------------
\* Night resolution (submitNightAction, processMorning, proceedAfterMorning)

ActionDocs(as) == SelectSeq(UserOrder, LAMBDA u : u \in DOMAIN as)

\* serverTimestamp(): later than every timestamp already stored
serverTimestamp(as) ==
    1 + (IF DOMAIN as = {} THEN 0
         ELSE CHOOSE m \in {as[a].submittedAt : a \in DOMAIN as} :
                  \A a \in DOMAIN as : as[a].submittedAt <= m)

submitNightAction(w, me, type, targetId) ==
    [w EXCEPT !.nightActions =
        (me :> [type |-> type, targetId |-> targetId,
                submittedAt |-> serverTimestamp(w.nightActions)])
        @@ w.nightActions]

\* 1. engineer actions on a living bug, in document order
RECURSIVE BugVictims(_, _, _)
BugVictims(as, ps, docs) ==
    IF docs = << >> THEN << >>
    ELSE LET data == as[Head(docs)]
             hit == /\ data.type = "engineer"
                    /\ data.targetId \in DOMAIN ps
                    /\ ps[data.targetId].isAlive
                    /\ ps[data.targetId].role = "bug"
         IN  (IF hit THEN <<[id |-> data.targetId, cause |-> "bug_death"]>>
              ELSE << >>) \o BugVictims(as, ps, Tail(docs))

\* the loop with the comparison reversed: the latest submission is kept
RECURSIVE ImpostorTargetLatest(_, _, _, _)
ImpostorTargetLatest(as, docs, earliestTime, impostorTargetId) ==
    IF docs = << >> THEN impostorTargetId
    ELSE LET data == as[Head(docs)]
         IN  IF data.type = "impostor"
                /\ (earliestTime = 0 \/ data.submittedAt > earliestTime)
             THEN ImpostorTargetLatest(as, Tail(docs), data.submittedAt,
                                       data.targetId)
             ELSE ImpostorTargetLatest(as, Tail(docs), earliestTime,
                                       impostorTargetId)

\* 2. the loop that keeps earliestTime and impostorTargetId
RECURSIVE ImpostorTarget(_, _, _, _)
ImpostorTarget(as, docs, earliestTime, impostorTargetId) ==
    IF docs = << >> THEN impostorTargetId
    ELSE LET data == as[Head(docs)]
         IN  IF data.type = "impostor"
                /\ (earliestTime = 0 \/ data.submittedAt < earliestTime)
             THEN ImpostorTarget(as, Tail(docs), data.submittedAt,
                                 data.targetId)
             ELSE ImpostorTarget(as, Tail(docs), earliestTime,
                                 impostorTargetId)

\* the impostor kill replaces the victims of the engineer checks
nightVictimsExclusive(as, ps) ==
    LET victims == BugVictims(as, ps, ActionDocs(as))
        impostorTargetId == ImpostorTarget(as, ActionDocs(as), 0, none)
        isAlreadyDead == \E i \in 1..Len(victims) :
                             victims[i].id = impostorTargetId
        isProtected == \E a \in DOMAIN as :
                           /\ as[a].type = "fallen_angel"
                           /\ as[a].targetId = impostorTargetId
    IN  IF /\ impostorTargetId # none
           /\ impostorTargetId \in DOMAIN ps
           /\ ps[impostorTargetId].isAlive
           /\ ~isAlreadyDead
           /\ ~isProtected
           /\ ps[impostorTargetId].role # "bug"
        THEN <<[id |-> impostorTargetId, cause |-> "impostor"]>>
        ELSE victims

\* the impostor kill without the fallen_angel check
nightVictimsNoProtection(as, ps) ==
    LET victims == BugVictims(as, ps, ActionDocs(as))
        impostorTargetId == ImpostorTarget(as, ActionDocs(as), 0, none)
        isAlreadyDead == \E i \in 1..Len(victims) :
                             victims[i].id = impostorTargetId
        isProtected == \E a \in DOMAIN as :
                           /\ as[a].type = "fallen_angel"
                           /\ as[a].targetId = impostorTargetId
    IN  IF /\ impostorTargetId # none
           /\ impostorTargetId \in DOMAIN ps
           /\ ps[impostorTargetId].isAlive
           /\ ~isAlreadyDead
           /\ ps[impostorTargetId].role # "bug"
        THEN Append(victims, [id |-> impostorTargetId, cause |-> "impostor"])
        ELSE victims

\* the impostor kill without the role check
nightVictimsBugKillable(as, ps) ==
    LET victims == BugVictims(as, ps, ActionDocs(as))
        impostorTargetId == ImpostorTarget(as, ActionDocs(as), 0, none)
        isAlreadyDead == \E i \in 1..Len(victims) :
                             victims[i].id = impostorTargetId
        isProtected == \E a \in DOMAIN as :
                           /\ as[a].type = "fallen_angel"
                           /\ as[a].targetId = impostorTargetId
    IN  IF /\ impostorTargetId # none
           /\ impostorTargetId \in DOMAIN ps
           /\ ps[impostorTargetId].isAlive
           /\ ~isAlreadyDead
           /\ ~isProtected
        THEN Append(victims, [id |-> impostorTargetId, cause |-> "impostor"])
        ELSE victims

\* 3. the impostor kill unless dead, already a victim, protected or a bug
nightVictims(as, ps) ==
    LET victims == BugVictims(as, ps, ActionDocs(as))
        impostorTargetId == ImpostorTarget(as, ActionDocs(as), 0, none)
        isAlreadyDead == \E i \in 1..Len(victims) :
                             victims[i].id = impostorTargetId
        isProtected == \E a \in DOMAIN as :
                           /\ as[a].type = "fallen_angel"
                           /\ as[a].targetId = impostorTargetId
    IN  IF /\ impostorTargetId # none
           /\ impostorTargetId \in DOMAIN ps
           /\ ps[impostorTargetId].isAlive
           /\ ~isAlreadyDead
           /\ ~isProtected
           /\ ps[impostorTargetId].role # "bug"
        THEN Append(victims, [id |-> impostorTargetId, cause |-> "impostor"])
        ELSE victims

processMorning(me, w) ==
    IF ~IsHost(me) THEN w
    ELSE LET victims == nightVictims(w.nightActions, w.players)
             ids == Elems(victims)
             day == w.room.day
             dead == {v.id : v \in ids}
             causeOf(p) == (CHOOSE v \in ids : v.id = p).cause
         IN  setState(me,
                 [w EXCEPT
                     !.players = [p \in DOMAIN w.players |->
                         IF p \in dead
                         THEN [w.players[p] EXCEPT !.isAlive = FALSE]
                         ELSE w.players[p]],
                     !.deathLog = [p \in dead |->
                                      [cause |-> causeOf(p), day |-> day,
                                       role |-> w.players[p].role]]
                                  @@ w.deathLog,
                     !.room.day = day + 1],
                 "MORNING_ANNOUNCEMENT",
                 [victims |-> [i \in 1..Len(victims) |-> victims[i].id]])

proceedAfterMorning(me, w) ==
    IF ~IsHost(me) THEN w
    ELSE LET winner == checkWinCondition(w.players)
         IN  IF winner # none
             THEN setState(me, w, "GAME_RESULT", [winner |-> winner])
             ELSE startMeetingTimer(me,
                      setState(me, w, "MEETING_DISCUSSION", << >>))

----------------------------------------------------------------------------
\* Aggregation conditions

Alive(ps) == {p \in DOMAIN ps : ps[p].isAlive}

allRead(ps) == \A p \in DOMAIN ps : ps[p].roleReadConfirmed

allVoted(w) == Cardinality(DOMAIN w.votes) >= Cardinality(Alive(w.players))

edPlayers(ps) ==
    {p \in Alive(ps) : ps[p].role \in {"engineer", "doctor", "fallen_angel"}}

allSubmitted(w) ==
    Cardinality(DOMAIN w.nightActions \cap edPlayers(w.players))
        >= Cardinality(edPlayers(w.players))

impostorSubmitted(as) == \E a \in DOMAIN as : as[a].type = "impostor"

\* checkEDSubmitted: the reads, the phase check and the write
checkEDSubmitted(me, w) ==
    IF allSubmitted(w) /\ IsHost(me)
          /\ w.gameState.phase = "NIGHT_SPECIAL"
    THEN setState(me, w, "NIGHT_IMPOSTOR", << >>)
    ELSE w

\* checkAllPlayersReadRole: the setState and the startMeetingTimer after it
checkAllPlayersReadRole(me, w) ==
    IF allRead(w.players) /\ IsHost(me)
    THEN startMeetingTimer(me, setState(me, w, "MEETING_DISCUSSION", << >>))
    ELSE w

\* checkAllVoted run to its end
checkAllVoted(me, w) ==
    IF allVoted(w) /\ IsHost(me) THEN processVotes(me, w) ELSE w

\* checkImpostorSubmitted run to its end
checkImpostorSubmitted(me, w) ==
    IF impostorSubmitted(w.nightActions) /\ IsHost(me)
          /\ w.gameState.phase = "NIGHT_IMPOSTOR"
    THEN processMorning(me, w)
    ELSE w

\* the timeout branch without clearInterval: only the field is reset
forgetActiveTimer(w) == [w EXCEPT !.activeTimer = 0]

\* clearInterval(this.activeTimer); this.activeTimer = null
clearActiveTimer(w) ==
    [w EXCEPT !.timers = Drop(w.timers, w.activeTimer), !.activeTimer = 0]

\* the branch of the interval callback taken when remaining <= 0
timeout(me, w, phase) ==
    LET c == clearActiveTimer(w)
    IN  IF ~IsHost(me) THEN c
        ELSE IF phase = "voting" THEN processVotes(me, c)
        ELSE IF phase = "meeting" THEN transitionToVoting(me, c)
        ELSE IF phase = "break" THEN transitionToNight(me, c)
        ELSE c

----------------------------------------------------------------------------
\* Bounds in the guards

CanWrite == gameState.version < MaxVersion

CanArchive ==
    BagCardinality(voteHistory) + Cardinality(DOMAIN votes) <= MaxHistory

CanResolve == room.day < MaxDay

Keep == UNCHANGED <<roleCheckOn, pendRead, pendVoted, pendImp, games, client, inbox, currentPlayer,
                   pendJoin, pendStart, pendClear>>

----------------------------------------------------------------------------
\* Initial state: the host has created the room (createRoom)

FormTimers ==
    [meeting |-> TimerSecs, vote |-> TimerSecs, break |-> TimerSecs]

----------------------------------------------------------------------------
\* Client synchronisation (subscribeToGameState)

\* what a listener or a getDoc receives of gameState/current
SnapOf(gs) == [exists |-> gs.exists, version |-> gs.version,
                  phase |-> gs.phase]

\* let localVersion = -1; nothing rendered, no callback pending
FreshClient ==
    [localVersion |-> -1,
     localPhase |-> none,
     screen |-> [version |-> -1, phase |-> none],
     renderQ |-> {},
     pulled |-> {},
     idle |-> 0]

\* the version test without the comparison: every snapshot is rendered
applyAlways(c, state) ==
    [c EXCEPT !.localVersion = state.version,
              !.localPhase = state.phase,
              !.renderQ = @ \cup {[version |-> state.version,
                                   phase |-> state.phase]}]

\* if (state.version !== localVersion) { localVersion = state.version;
\* getCurrentRole().then(role => renderScreen(state.phase, role, state)) }
applyIfNew(c, state) ==
    IF state.version # c.localVersion
    THEN [c EXCEPT !.localVersion = state.version,
                   !.localPhase = state.phase,
                   !.renderQ = @ \cup {[version |-> state.version,
                                        phase |-> state.phase]}]
    ELSE c

\* the onSnapshot callback: lastSnapshotTime = Date.now(); if (!state) return
onSnapshot(c, state) ==
    LET seen == [c EXCEPT !.idle = 0]
    IN  IF ~state.exists THEN seen ELSE applyIfNew(seen, state)

\* the callback of getCurrentRole(): renderScreen(state.phase, role, state)
render(c, r) ==
    [c EXCEPT !.screen = r, !.renderQ = @ \ {r}]

\* the guard's getDoc(gameStateRef) and lastSnapshotTime = Date.now()
guardPull(c, gs) ==
    [c EXCEPT !.pulled = {SnapOf(gs)}, !.idle = 0]

\* the callback of the guard's getDoc: if (snap.exists()) { ... }
guardThen(c, snap) ==
    LET got == [c EXCEPT !.pulled = {}]
    IN  IF snap.exists THEN applyIfNew(got, snap) ELSE got

\* the room code of the room whose documents are modelled, and the code
\* of any other room
RoomCodes == {"R", "Q"}

UserIds == {"a", "b", "c", "d", "e", "h"}

\* clearSession(): this.currentRoom = null; this.currentPlayer = null
NoSession == [room |-> none, isHost |-> FALSE]

\* the sessions after createRoom by Host; the sessions of the other
\* clients are followed in the room specification only
HostSession ==
    [u \in UserIds |-> IF u = Host THEN [room |-> "R", isHost |-> TRUE]
                       ELSE NoSession]

\* transitionToVoting is not running and none of its deletes is under way
NoClear == [stage |-> "idle", docs |-> {}]

\* no joinRoom call, startGameBtn handler or transitionToVoting is suspended
NoPending ==
    /\ pendJoin = << >>
    /\ pendStart = {}
    /\ pendClear = NoClear

\* the client is not observed
NoClient ==
    /\ client = FreshClient
    /\ inbox = {}

\* the host's client right after createRoom: no interval, no pending call
HostIdle ==
    /\ timers = << >>
    /\ activeTimer = 0
    /\ roleCheckOn = FALSE
    /\ voteCheckOn = FALSE
    /\ pendRead = 0
    /\ pendVoted = 0
    /\ pendImp = 0

Init ==
    /\ room = [status |-> "lobby", day |-> 1]
    /\ players = (Host :> NewPlayer(TRUE))
    /\ settings = [roles |-> DefaultRoles,
                   timers |-> [meeting |-> 300, vote |-> 60, break |-> 120]]
    /\ gameState = [exists |-> FALSE, phase |-> "LOBBY", version |-> 0,
                    payload |-> << >>]
    /\ votes = EmptyDocs
    /\ nightActions = EmptyDocs
    /\ deathLog = EmptyDocs
    /\ voteHistory = EmptyBag
    /\ HostIdle
    /\ NoClient
    /\ currentPlayer = HostSession
    /\ NoPending
    /\ games = 0

----------------------------------------------------------------------------
\* Lobby

JoinRoom(p) ==
    /\ room.status = "lobby"
    /\ p \notin DOMAIN players
    /\ Commit(joinRoom(world, p, FALSE))
    /\ Keep

KickBtn(p) ==
    /\ gameState.phase = "LOBBY"
    /\ p \in DOMAIN players
    /\ p # Host
    /\ Commit(kickPlayer(Host, world, p))
    /\ Keep

\* the click handler of startGameBtn: validation, updateSettings, startGame
StartGameBtn(roles) ==
    /\ gameState.phase = "LOBBY"
    /\ CanWrite
    /\ games < MaxGames
    /\ IF totalRoles(roles) # Cardinality(DOMAIN players)
          \/ roles["impostor"] < 1
       THEN UNCHANGED vars
       ELSE LET saved == updateSettings(Host, world,
                             [roles |-> roles, timers |-> FormTimers])
                deck == assignRoles(Cardinality(DOMAIN saved.players),
                                    saved.settings.roles)
            IN  /\ \E shuffledRoles \in shuffleArray(deck) :
                       Commit(startGame(Host, saved, shuffledRoles))
                /\ games' = games + 1
                /\ UNCHANGED <<roleCheckOn, pendRead, pendVoted, pendImp,
                               client, inbox, currentPlayer,
                   pendJoin, pendStart, pendClear>>

----------------------------------------------------------------------------
\* Role reveal

\* okBtn: markRoleAsRead; on the host the check interval starts
MarkRoleAsRead(p) ==
    /\ gameState.phase = "ROLE_REVEAL"
    /\ p \in DOMAIN players
    /\ ~players[p].roleReadConfirmed
    /\ players' = [players EXCEPT ![p].roleReadConfirmed = TRUE]
    /\ roleCheckOn' = (roleCheckOn \/ IsHost(p))
    /\ UNCHANGED <<room, settings, gameState, votes, nightActions, deathLog,
                   voteHistory, timers, activeTimer, voteCheckOn,
                   pendRead, pendVoted, pendImp, games, client, inbox, currentPlayer,
                   pendJoin, pendStart, pendClear>>

\* a tick of the interval: the call up to its return
CheckAllPlayersReadRole ==
    /\ roleCheckOn
    /\ allRead(players)
    /\ pendRead < MaxReadInflight
    /\ CanWrite
    /\ Commit(checkAllPlayersReadRole(Host, world))
    /\ pendRead' = pendRead + 1
    /\ UNCHANGED <<roleCheckOn, pendVoted, pendImp, games, client, inbox, currentPlayer,
                   pendJoin, pendStart, pendClear>>

\* that call returns true to the interval callback: clearInterval
CheckAllPlayersReadRoleReturn ==
    /\ pendRead > 0
    /\ pendRead' = pendRead - 1
    /\ roleCheckOn' = FALSE
    /\ UNCHANGED <<room, players, settings, gameState, votes, nightActions,
                   deathLog, voteHistory, timers, activeTimer, voteCheckOn,
                   pendVoted, pendImp, games, client, inbox, currentPlayer,
                   pendJoin, pendStart, pendClear>>

----------------------------------------------------------------------------
\* Meeting, voting, vote result, break

VoteBtn ==
    /\ gameState.phase = "MEETING_DISCUSSION"
    /\ CanWrite
    /\ Commit(transitionToVoting(Host, world))
    /\ Keep

\* a vote button of a living player for another living player
SubmitVote(p, targetId) ==
    /\ gameState.phase = "VOTING"
    /\ p \in Alive(players)
    /\ targetId \in (Alive(players) \cap Candidates) \ {p}
    /\ p \notin DOMAIN votes
    /\ Commit([world EXCEPT !.votes = (p :> targetId) @@ votes,
                            !.voteCheckOn = voteCheckOn \/ IsHost(p)])
    /\ Keep

\* a tick of the host's interval: checkAllVoted up to its call of processVotes
CheckAllVoted ==
    /\ voteCheckOn
    /\ allVoted(world)
    /\ pendVoted < MaxVotedInflight
    /\ pendVoted' = pendVoted + 1
    /\ UNCHANGED <<room, players, settings, gameState, votes, nightActions,
                   deathLog, voteHistory, timers, activeTimer, voteCheckOn,
                   roleCheckOn, pendRead, pendImp, games, client, inbox, currentPlayer,
                   pendJoin, pendStart, pendClear>>

\* the rest of that call: processVotes, return true, clearInterval
CheckAllVotedProcess ==
    /\ pendVoted > 0
    /\ CanWrite
    /\ CanArchive
    /\ Commit([processVotes(Host, world) EXCEPT !.voteCheckOn = FALSE])
    /\ pendVoted' = pendVoted - 1
    /\ UNCHANGED <<roleCheckOn, pendRead, pendImp, games, client, inbox, currentPlayer,
                   pendJoin, pendStart, pendClear>>

\* one run of the callback of a live countdown interval
TimerTick(h) ==
    /\ h \in DOMAIN timers
    /\ LET remaining == timers[h].remaining - 1
           ticked == [world EXCEPT !.timers[h].remaining = remaining]
       IN  IF remaining <= 0
           THEN /\ CanWrite
                /\ CanArchive
                /\ Commit(timeout(Host, ticked, timers[h].phase))
           ELSE Commit(ticked)
    /\ Keep

NextBtnVote ==
    /\ gameState.phase = "VOTE_RESULT"
    /\ CanWrite
    /\ Commit(proceedAfterVote(Host, world))
    /\ Keep

NightBtn ==
    /\ gameState.phase = "BREAK"
    /\ CanWrite
    /\ Commit(transitionToNight(Host, world))
    /\ Keep

----------------------------------------------------------------------------
\* Night and morning

\* the targets the night screens offer to role r of player p
NightTargets(p, r) ==
    LET valid == IF r = "doctor" THEN DOMAIN players \ Alive(players)
                 ELSE Alive(players) \ {p}
    IN  IF valid = {} THEN {"SKIP"} ELSE valid

SubmitSpecial(p, targetId) ==
    /\ gameState.phase = "NIGHT_SPECIAL"
    /\ p \in edPlayers(players)
    /\ p \notin DOMAIN nightActions
    /\ targetId \in NightTargets(p, players[p].role)
    /\ Commit(submitNightAction(world, p, players[p].role, targetId))
    /\ Keep

SubmitImpostor(p, targetId) ==
    /\ gameState.phase = "NIGHT_IMPOSTOR"
    /\ p \in Alive(players)
    /\ players[p].role = "impostor"
    /\ p \notin DOMAIN nightActions
    /\ targetId \in Alive(players) \ {p}
    /\ players[targetId].role # "impostor"
    /\ Commit(submitNightAction(world, p, "impostor", targetId))
    /\ Keep

\* a tick of the host monitor, which runs in both night phases
CheckEDSubmitted ==
    /\ gameState.phase \in {"NIGHT_SPECIAL", "NIGHT_IMPOSTOR"}
    /\ CanWrite
    /\ Commit(checkEDSubmitted(Host, world))
    /\ Keep

\* the host's checkImpostorSubmitted interval is live: the host sleeps
\* (showNightSleep) or is an impostor who has chosen a target
ImpostorMonitorOn ==
    /\ gameState.phase = "NIGHT_IMPOSTOR"
    /\ Host \in DOMAIN players
    /\ \/ ~players[Host].isAlive
       \/ players[Host].role # "impostor"
       \/ Host \in DOMAIN nightActions

\* checkImpostorSubmitted up to its call of processMorning
CheckImpostorSubmitted ==
    /\ ImpostorMonitorOn
    /\ impostorSubmitted(nightActions)
    /\ gameState.phase = "NIGHT_IMPOSTOR"
    /\ pendImp < MaxImpInflight
    /\ pendImp' = pendImp + 1
    /\ UNCHANGED <<room, players, settings, gameState, votes, nightActions,
                   deathLog, voteHistory, timers, activeTimer, voteCheckOn,
                   roleCheckOn, pendRead, pendVoted, games, client, inbox, currentPlayer,
                   pendJoin, pendStart, pendClear>>

CheckImpostorProcess ==
    /\ pendImp > 0
    /\ CanWrite
    /\ CanResolve
    /\ Commit(processMorning(Host, world))
    /\ pendImp' = pendImp - 1
    /\ UNCHANGED <<roleCheckOn, pendRead, pendVoted, games, client, inbox, currentPlayer,
                   pendJoin, pendStart, pendClear>>

NextBtnMorning ==
    /\ gameState.phase = "MORNING_ANNOUNCEMENT"
    /\ CanWrite
    /\ Commit(proceedAfterMorning(Host, world))
    /\ Keep

\* playAgainBtn on the host
PlayAgainBtn ==
    /\ gameState.phase = "GAME_RESULT"
    /\ Commit(resetGameState(Host, world))
    /\ Keep

----------------------------------------------------------------------------
\* Calls of the host-only operations by a client whose player is not the host

HostOnlyCalls(me, w) ==
    {setState(me, w, phase, << >>) : phase \in GAME_PHASES}
    \cup {kickPlayer(me, w, q) : q \in DOMAIN w.players}
    \cup {updateSettings(me, w, [roles |-> roles]) : roles \in RoleConfigs}
    \cup {startGame(me, w, assignRoles(Cardinality(DOMAIN w.players),
                                       w.settings.roles)),
          resetGameState(me, w),
          checkAllPlayersReadRole(me, w),
          startMeetingTimer(me, w), startVotingTimer(me, w),
          startBreakTimer(me, w),
          transitionToVoting(me, w), transitionToBreak(me, w),
          transitionToNight(me, w),
          checkAllVoted(me, w), processVotes(me, w), proceedAfterVote(me, w),
          checkEDSubmitted(me, w), checkImpostorSubmitted(me, w),
          processMorning(me, w), proceedAfterMorning(me, w)}

NonHostCall(p) ==
    /\ p \in DOMAIN players
    /\ ~players[p].isHost
    /\ \E result \in HostOnlyCalls(p, world) : Commit(result)
    /\ Keep

----------------------------------------------------------------------------

Next ==
    \/ \E p \in Users : JoinRoom(p)
    \/ \E p \in Users : KickBtn(p)
    \/ \E roles \in RoleConfigs : StartGameBtn(roles)
    \/ \E p \in Users : MarkRoleAsRead(p)
    \/ CheckAllPlayersReadRole
    \/ CheckAllPlayersReadRoleReturn
    \/ VoteBtn
    \/ \E p, t \in Users : SubmitVote(p, t)
    \/ CheckAllVoted
    \/ CheckAllVotedProcess
    \/ \E h \in DOMAIN timers : TimerTick(h)
    \/ NextBtnVote
    \/ NightBtn
    \/ \E p \in Users, t \in Users \cup {"SKIP"} : SubmitSpecial(p, t)
    \/ \E p, t \in Users : SubmitImpostor(p, t)
    \/ CheckEDSubmitted
    \/ CheckImpostorSubmitted
    \/ CheckImpostorProcess
    \/ NextBtnMorning
    \/ PlayAgainBtn
    \/ \E p \in Users : NonHostCall(p)

Spec == Init /\ [][Next]_vars

----------------------------------------------------------------------------
\* Role assignment alone: startGame from every lobby of one to four players
\* and every valid role-count mapping

ValidRoleCounts(n) ==
    {rc \in [RoleIds -> 0..n] : totalRoles(rc) = n /\ rc["impostor"] >= 1}

InitRoles ==
    /\ \E joined \in SUBSET (Users \ {Host}) :
          /\ players = [p \in joined \cup {Host} |-> NewPlayer(p = Host)]
          /\ \E rc \in ValidRoleCounts(Cardinality(joined) + 1) :
                 settings = [roles |-> rc, timers |-> FormTimers]
    /\ room = [status |-> "lobby", day |-> 1]
    /\ gameState = [exists |-> FALSE, phase |-> "LOBBY", version |-> 0,
                    payload |-> << >>]
    /\ votes = EmptyDocs
    /\ nightActions = EmptyDocs
    /\ deathLog = EmptyDocs
    /\ voteHistory = EmptyBag
    /\ HostIdle
    /\ NoClient
    /\ currentPlayer = HostSession
    /\ NoPending
    /\ games = 0

StartGameCall ==
    /\ gameState.phase = "LOBBY"
    /\ room.status = "lobby"
    /\ \E shuffledRoles \in
              shuffleArray(assignRoles(Cardinality(DOMAIN players),
                                       settings.roles)) :
           Commit(startGame(Host, world, shuffledRoles))
    /\ Keep

SpecRoles == InitRoles /\ [][StartGameCall]_vars

----------------------------------------------------------------------------
\* The night resolution alone: processMorning on every set of night actions
\* that two impostors, an engineer and a fallen angel can have stored

MaxStamp == 2       \* the impostors' submittedAt values, in milliseconds

NightUsers == {"a", "b", "c", "d", "e", "h"}

NightRoles ==
    [a |-> "impostor", b |-> "impostor", c |-> "engineer",
     d |-> "fallen_angel", e |-> "bug", h |-> "citizen"]

\* the action docs of a night: a dead player has stored none, a living
\* engineer or fallen angel has stored one (checkEDSubmitted has passed),
\* and at least one living impostor has (checkImpostorSubmitted is passing)
NightDocs(alive) ==
    LET specials == {p \in NightUsers : alive[p] /\ NightRoles[p]
                                          \in {"engineer", "fallen_angel"}}
        impostors == {p \in NightUsers : alive[p]
                                           /\ NightRoles[p] = "impostor"}
    IN  UNION {
          {[p \in specials \cup imps |->
               [type |-> NightRoles[p], targetId |-> target[p],
                submittedAt |-> IF p \in imps THEN stamp[p] ELSE 1]] :
             target \in [specials \cup imps -> NightUsers],
             stamp \in [imps -> 1..MaxStamp]} :
          imps \in SUBSET impostors \ {{}}}

InitNight ==
    /\ \E alive \in [NightUsers -> BOOLEAN] :
         /\ alive["a"]
         /\ players = [p \in NightUsers |->
                [isHost |-> p = Host, isAlive |-> alive[p],
                 role |-> NightRoles[p], roleReadConfirmed |-> TRUE]]
         /\ nightActions \in NightDocs(alive)
    /\ gameState = [exists |-> TRUE, phase |-> "NIGHT_IMPOSTOR",
                    version |-> 6, payload |-> << >>]
    /\ room = [status |-> "ingame", day |-> 1]
    /\ settings = [roles |-> [NoRoles EXCEPT !["impostor"] = 2,
                                             !["engineer"] = 1,
                                             !["fallen_angel"] = 1,
                                             !["bug"] = 1,
                                             !["citizen"] = 1],
                   timers |-> FormTimers]
    /\ votes = EmptyDocs
    /\ deathLog = EmptyDocs
    /\ voteHistory = EmptyBag
    /\ HostIdle
    /\ NoClient
    /\ currentPlayer = HostSession
    /\ NoPending
    /\ games = 1

ProcessMorningCall ==
    /\ gameState.phase = "NIGHT_IMPOSTOR"
    /\ Commit(checkImpostorSubmitted(Host, world))
    /\ Keep

SpecNight == InitNight /\ [][ProcessMorningCall]_vars

----------------------------------------------------------------------------
\* The win check alone: proceedAfterVote and proceedAfterMorning on every
\* assignment of four roles and of isAlive to five players

WinUsers == {"a", "b", "c", "d", "h"}

WinRoles == {"citizen", "impostor", "impostor_follower", "bug"}

InitWin ==
    /\ \E role \in [WinUsers -> WinRoles], alive \in [WinUsers -> BOOLEAN] :
           players = [p \in WinUsers |->
               [isHost |-> p = Host, isAlive |-> alive[p],
                role |-> role[p], roleReadConfirmed |-> TRUE]]
    /\ \/ gameState = [exists |-> TRUE, phase |-> "VOTE_RESULT",
                       version |-> 4,
                       payload |-> [result |-> "killed", victimId |-> "x",
                                    victimName |-> "Unknown (Left)"]]
       \/ gameState = [exists |-> TRUE, phase |-> "MORNING_ANNOUNCEMENT",
                       version |-> 7, payload |-> [victims |-> << >>]]
    /\ room = [status |-> "ingame", day |-> 1]
    /\ settings = [roles |-> [NoRoles EXCEPT !["citizen"] = 5],
                   timers |-> FormTimers]
    /\ votes = EmptyDocs
    /\ nightActions = EmptyDocs
    /\ deathLog = EmptyDocs
    /\ voteHistory = EmptyBag
    /\ HostIdle
    /\ NoClient
    /\ currentPlayer = HostSession
    /\ NoPending
    /\ games = 1

ProceedAfterVoteCall ==
    /\ gameState.phase = "VOTE_RESULT"
    /\ Commit(proceedAfterVote(Host, world))
    /\ Keep

ProceedAfterMorningCall ==
    /\ gameState.phase = "MORNING_ANNOUNCEMENT"
    /\ Commit(proceedAfterMorning(Host, world))
    /\ Keep

SpecWin ==
    InitWin /\ [][ProceedAfterVoteCall \/ ProceedAfterMorningCall]_vars

----------------------------------------------------------------------------
\* One subscribed client and the host's writes of gameState/current

MaxSyncVersion == 5     \* no setState once version has reached this
MaxSyncGames == 2       \* no game is started after this many
MaxInbox == 1           \* snapshots on their way to the listener
MaxRenders == 2         \* render callbacks waiting for getCurrentRole

\* the setState call sites, each with the phase its caller runs in
SetStateCalls ==
    {<<"LOBBY", "ROLE_REVEAL">>,                    \* startGame
     <<"ROLE_REVEAL", "MEETING_DISCUSSION">>,       \* checkAllPlayersReadRole
     <<"MEETING_DISCUSSION", "VOTING">>,            \* transitionToVoting
     <<"VOTING", "VOTE_RESULT">>,                   \* processVotes
     <<"VOTE_RESULT", "MEETING_DISCUSSION">>,       \* proceedAfterVote
     <<"VOTE_RESULT", "BREAK">>,
     <<"VOTE_RESULT", "GAME_RESULT">>,
     <<"BREAK", "NIGHT_SPECIAL">>,                  \* transitionToNight
     <<"NIGHT_SPECIAL", "NIGHT_IMPOSTOR">>,         \* checkEDSubmitted
     <<"NIGHT_IMPOSTOR", "MORNING_ANNOUNCEMENT">>,  \* processMorning
     <<"MORNING_ANNOUNCEMENT", "MEETING_DISCUSSION">>,  \* proceedAfterMorning
     <<"MORNING_ANNOUNCEMENT", "GAME_RESULT">>}

\* the store sends the written state to the listener, once or twice, or
\* the notification is lost
Notify(gs) ==
    \/ inbox' = inbox
    \/ /\ Cardinality(inbox) < MaxInbox
       /\ \E again \in BOOLEAN :
              inbox' = inbox \cup {[exists |-> gs.exists,
                                    version |-> gs.version,
                                    phase |-> gs.phase, again |-> again]}

InitSync ==
    /\ room = [status |-> "lobby", day |-> 1]
    /\ players = (Host :> NewPlayer(TRUE)) @@ ("a" :> NewPlayer(FALSE))
    /\ settings = [roles |-> DefaultRoles, timers |-> FormTimers]
    /\ gameState = [exists |-> FALSE, phase |-> "LOBBY", version |-> 0,
                    payload |-> << >>]
    /\ votes = EmptyDocs
    /\ nightActions = EmptyDocs
    /\ deathLog = EmptyDocs
    /\ voteHistory = EmptyBag
    /\ HostIdle
    /\ games = 0
    /\ client = FreshClient
    /\ inbox = {[exists |-> FALSE, version |-> 0, phase |-> "LOBBY",
                 again |-> FALSE]}
    /\ currentPlayer = HostSession
    /\ NoPending

SyncSetState(phase) ==
    /\ gameState.version < MaxSyncVersion
    /\ <<gameState.phase, phase>> \in SetStateCalls
    /\ phase = "ROLE_REVEAL" => games < MaxSyncGames
    /\ Commit(setState(Host, world, phase, << >>))
    /\ games' = IF phase = "ROLE_REVEAL" THEN games + 1 ELSE games
    /\ Notify(gameState')
    /\ UNCHANGED <<roleCheckOn, pendRead, pendVoted, pendImp, client,
                   currentPlayer,
                   pendJoin, pendStart, pendClear>>

SyncReset ==
    /\ gameState.phase = "GAME_RESULT"
    /\ Commit(resetGameState(Host, world))
    /\ Notify(gameState')
    /\ UNCHANGED <<roleCheckOn, pendRead, pendVoted, pendImp, games, client,
                   currentPlayer,
                   pendJoin, pendStart, pendClear>>

HostKeeps ==
    UNCHANGED <<room, players, settings, gameState, votes, nightActions,
                deathLog, voteHistory, timers, activeTimer, roleCheckOn,
                voteCheckOn, pendRead, pendVoted, pendImp, games,
                currentPlayer,
                   pendJoin, pendStart, pendClear>>

OnSnapshot(n) ==
    /\ n \in inbox
    /\ client' = onSnapshot(client, n)
    /\ Cardinality(client'.renderQ) <= MaxRenders
    /\ inbox' = IF n.again
                THEN (inbox \ {n}) \cup {[n EXCEPT !.again = FALSE]}
                ELSE inbox \ {n}
    /\ HostKeeps

Render(r) ==
    /\ r \in client.renderQ
    /\ client' = render(client, r)
    /\ UNCHANGED inbox
    /\ HostKeeps

\* a tick of the 2000 ms guard interval: the 3000 ms without a snapshot
\* have passed at the third tick at the latest and at the second at the
\* earliest; the getDoc of a tick has been answered before the next tick
GuardTick ==
    /\ client.pulled = {}
    /\ \/ client.idle < 2 /\ client' = [client EXCEPT !.idle = @ + 1]
       \/ client.idle >= 1 /\ client' = guardPull(client, gameState)
    /\ UNCHANGED inbox
    /\ HostKeeps

GuardThen ==
    /\ \E snap \in client.pulled : client' = guardThen(client, snap)
    /\ Cardinality(client'.renderQ) <= MaxRenders
    /\ UNCHANGED inbox
    /\ HostKeeps

NextSync ==
    \/ \E phase \in GAME_PHASES : SyncSetState(phase)
    \/ SyncReset
    \/ \E n \in inbox : OnSnapshot(n)
    \/ \E r \in client.renderQ : Render(r)
    \/ GuardTick
    \/ GuardThen

SpecSync == InitSync /\ [][NextSync]_vars

\* the listener and the callbacks run when they are due, and the interval
\* keeps ticking
SpecSyncFair ==
    /\ SpecSync
    /\ WF_vars(\E n \in inbox : OnSnapshot(n))
    /\ WF_vars(\E r \in client.renderQ : Render(r))
    /\ WF_vars(GuardTick)
    /\ WF_vars(GuardThen)

----------------------------------------------------------------------------
\* The room alone: createRoom, joinRoom, kickPlayer and leaveRoom called by
\* four users from the home screen and the lobby

InitRooms ==
    /\ room = NoRoom
    /\ players = EmptyDocs
    /\ settings = NoSettings
    /\ gameState = [exists |-> FALSE, phase |-> "LOBBY", version |-> 0,
                    payload |-> << >>]
    /\ votes = EmptyDocs
    /\ nightActions = EmptyDocs
    /\ deathLog = EmptyDocs
    /\ voteHistory = EmptyBag
    /\ HostIdle
    /\ games = 0
    /\ NoClient
    /\ currentPlayer = [u \in UserIds |-> NoSession]
    /\ NoPending

RoomKeeps ==
    UNCHANGED <<roleCheckOn, pendRead, pendVoted, pendImp, games, client,
                inbox, pendJoin, pendStart, pendClear>>

\* createBtn on the home screen; generateRoomCode() returned roomCode
CreateRoom(u, roomCode) ==
    /\ currentPlayer[u] = NoSession
    /\ IF roomCode = "R"
       THEN Commit(createRoom(world, u))
       ELSE Commit(world)
    /\ currentPlayer' = [currentPlayer EXCEPT
                            ![u] = [room |-> roomCode, isHost |-> TRUE]]
    /\ RoomKeeps

\* joinBtn on the home screen with the code R; joinRoom throws if the room
\* is missing or has left the lobby without this player
JoinRoomCall(u) ==
    /\ currentPlayer[u] = NoSession
    /\ room # NoRoom
    /\ room.status = "lobby" \/ u \in DOMAIN players
    /\ Commit(joinRoom(world, u, FALSE))
    /\ currentPlayer' = [currentPlayer EXCEPT
                            ![u] = [room |-> "R",
                                    isHost |-> players'[u].isHost]]
    /\ RoomKeeps

\* a kick button of the lobby list, shown to a host for the other players
KickPlayerCall(u, playerId) ==
    /\ currentPlayer[u].room = "R"
    /\ IsHost(u)
    /\ playerId \in DOMAIN players \ {u}
    /\ Commit(kickPlayer(u, world, playerId))
    /\ UNCHANGED currentPlayer
    /\ RoomKeeps

\* globalLeaveBtn
LeaveRoom(u) ==
    /\ currentPlayer[u] # NoSession
    /\ IF currentPlayer[u].room = "R"
       THEN Commit(leaveRoom(world, u, currentPlayer[u].isHost))
       ELSE Commit(world)
    /\ currentPlayer' = [currentPlayer EXCEPT ![u] = NoSession]
    /\ RoomKeeps

NextRooms ==
    \/ \E u \in Users, roomCode \in RoomCodes : CreateRoom(u, roomCode)
    \/ \E u \in Users : JoinRoomCall(u)
    \/ \E u \in Users, playerId \in Users : KickPlayerCall(u, playerId)
    \/ \E u \in Users : LeaveRoom(u)

SpecRooms == InitRooms /\ [][NextRooms]_vars

----------------------------------------------------------------------------
\* The reset alone: a finished game, reset by the host with every write
\* accepted or with the write of one doc rejected

ResetRoles == [h |-> "citizen", a |-> "impostor", b |-> "engineer",
               c |-> "citizen"]

InitReset ==
    /\ \E dead \in SUBSET (Users \ {Host}) :
          /\ dead # {}
          /\ players = [p \in Users |->
                 [isHost |-> p = Host, isAlive |-> p \notin dead,
                  role |-> ResetRoles[p], roleReadConfirmed |-> TRUE]]
          /\ deathLog = [p \in dead |->
                 [cause |-> "vote", day |-> 1, role |-> ResetRoles[p]]]
          /\ \E victimId \in dead, winner \in {"citizen", "impostor", "bug"} :
                 gameState = [exists |-> TRUE, phase |-> "GAME_RESULT",
                              version |-> 5,
                              payload |-> [winner |-> winner,
                                           result |-> "killed",
                                           victimId |-> victimId,
                                           victimName |-> victimId]]
          /\ \E voters \in SUBSET (Users \ dead) :
                 /\ voters # {}
                 /\ votes = [v \in voters |-> CHOOSE d \in dead : TRUE]
                 /\ voteHistory = SetToBag({[day |-> 1, voterId |-> v,
                                             targetId |-> votes[v]] :
                                            v \in voters})
    /\ \/ nightActions = EmptyDocs
       \/ nightActions = ("a" :> [type |-> "impostor", targetId |-> "c",
                                  submittedAt |-> 1])
    /\ room = [status |-> "ingame", day |-> 2]
    /\ settings = [roles |-> [NoRoles EXCEPT !["impostor"] = 1,
                                             !["engineer"] = 1,
                                             !["citizen"] = 2],
                   timers |-> FormTimers]
    /\ HostIdle
    /\ NoClient
    /\ currentPlayer = HostSession
    /\ NoPending
    /\ games = 1

\* the play-again button, with the write of one doc rejected
ResetFailingCall ==
    /\ gameState.phase = "GAME_RESULT"
    /\ \E step \in DOMAIN ResetSteps :
           \E failed \in ResetDocs(world, step) :
               Commit(resetGameStateFailing(Host, world, step, failed))
    /\ Keep

NextReset ==
    \/ PlayAgainBtn
    \/ ResetFailingCall

SpecReset == InitReset /\ [][NextReset]_vars

----------------------------------------------------------------------------
\* The start of a game: the startGameBtn handler with its validation and its
\* calls of updateSettings and startGame as two steps, while players join
\* and leave the lobby

\* what the host can have typed into the role inputs
StartConfigs ==
    {[NoRoles EXCEPT !["impostor"] = 1, !["citizen"] = k] : k \in 0..3}
        \cup {[NoRoles EXCEPT !["citizen"] = 2],
              [NoRoles EXCEPT !["impostor"] = 1, !["engineer"] = 1,
                              !["citizen"] = 1]}

InitStart ==
    /\ \E joined \in SUBSET (Users \ {Host}) :
           players = [p \in joined \cup {Host} |-> NewPlayer(p = Host)]
    /\ settings = [roles |-> DefaultRoles, timers |-> FormTimers]
    /\ room = [status |-> "lobby", day |-> 1]
    /\ gameState = [exists |-> FALSE, phase |-> "LOBBY", version |-> 0,
                    payload |-> << >>]
    /\ votes = EmptyDocs
    /\ nightActions = EmptyDocs
    /\ deathLog = EmptyDocs
    /\ voteHistory = EmptyBag
    /\ HostIdle
    /\ NoClient
    /\ currentPlayer = HostSession
    /\ NoPending
    /\ games = 0

\* the click on startGameBtn up to the first await: the role counts are
\* compared with the player list the lobby shows
StartGameValidate(roles) ==
    /\ gameState.phase = "LOBBY"
    /\ pendStart = {}
    /\ IF totalRoles(roles) # Cardinality(DOMAIN players)
          \/ roles["impostor"] < 1
       THEN UNCHANGED vars
       ELSE /\ pendStart' = {roles}
            /\ Commit(world)
            /\ UNCHANGED <<roleCheckOn, pendRead, pendVoted, pendImp, games,
                           client, inbox, currentPlayer, pendJoin,
                           pendClear>>

\* the rest of the handler: updateSettings, then startGame, which reads the
\* players again
StartGameRun ==
    /\ \E roles \in pendStart :
          LET saved == updateSettings(Host, world,
                           [roles |-> roles, timers |-> FormTimers])
              deck == assignRoles(Cardinality(DOMAIN saved.players),
                                  saved.settings.roles)
          IN  /\ \E shuffledRoles \in shuffleArray(deck) :
                     Commit(startGame(Host, saved, shuffledRoles))
              /\ pendStart' = pendStart \ {roles}
    /\ games' = games + 1
    /\ UNCHANGED <<roleCheckOn, pendRead, pendVoted, pendImp, client, inbox,
                   currentPlayer, pendJoin, pendClear>>

\* a player other than the host leaves the lobby
LobbyLeave(p) ==
    /\ room.status = "lobby"
    /\ p \in DOMAIN players
    /\ p # Host
    /\ Commit(leaveRoom(world, p, FALSE))
    /\ Keep

NextStart ==
    \/ \E roles \in StartConfigs : StartGameValidate(roles)
    \/ StartGameRun
    \/ \E p \in Users : JoinRoom(p)
    \/ \E p \in Users : LobbyLeave(p)

SpecStart == InitStart /\ [][NextStart]_vars

----------------------------------------------------------------------------
\* The host leaves the room of a finished game

SpecLeave == InitReset /\ [][\E u \in Users : LeaveRoom(u)]_vars

----------------------------------------------------------------------------
\* The tally alone: processVotes on every set of vote docs of five players

TallyUsers == {"a", "b", "c", "d", "h"}

\* what gameState/current holds from an earlier round of the same day
PriorResults ==
    {<< >>,
     [result |-> "tie", tiedPlayers |-> <<"c", "d">>],
     [result |-> "killed", victimId |-> "x", victimName |-> "Unknown (Left)"]}

InitTally ==
    /\ \E gone \in {{}, {"d"}} :
           players = [p \in TallyUsers \ gone |->
               [isHost |-> p = Host, isAlive |-> TRUE,
                role |-> IF p = "a" THEN "impostor" ELSE "citizen",
                roleReadConfirmed |-> TRUE]]
    /\ \E ballot \in [TallyUsers -> TallyUsers \cup {none}] :
           votes = [v \in {u \in TallyUsers : ballot[u] # none} |-> ballot[v]]
    /\ \E prior \in PriorResults :
           gameState = [exists |-> TRUE, phase |-> "VOTING", version |-> 3,
                        payload |-> prior]
    /\ \E day \in 1..2 : room = [status |-> "ingame", day |-> day]
    /\ settings = [roles |-> [NoRoles EXCEPT !["impostor"] = 1,
                                             !["citizen"] = 4],
                   timers |-> FormTimers]
    /\ nightActions = EmptyDocs
    /\ deathLog = EmptyDocs
    /\ voteHistory = EmptyBag
    /\ HostIdle
    /\ NoClient
    /\ currentPlayer = HostSession
    /\ NoPending
    /\ games = 1

ProcessVotesCall ==
    /\ gameState.phase = "VOTING"
    /\ Commit(processVotes(Host, world))
    /\ Keep

SpecTally == InitTally /\ [][ProcessVotesCall]_vars

----------------------------------------------------------------------------
\* Voting rounds alone: a meeting after an earlier round of the same day,
\* whose vote docs are still in the collection

VotingRoles == [h |-> "citizen", a |-> "impostor", b |-> "citizen",
                c |-> "citizen"]

InitVoting ==
    /\ players = [p \in Users |->
           [isHost |-> p = Host, isAlive |-> TRUE, role |-> VotingRoles[p],
            roleReadConfirmed |-> TRUE]]
    /\ \E ballot \in [Users -> Candidates \cup {none}] :
           votes = [v \in {u \in Users : ballot[u] # none /\ ballot[u] # u}
                       |-> ballot[v]]
    /\ gameState = [exists |-> TRUE, phase |-> "MEETING_DISCUSSION",
                    version |-> 3, payload |-> << >>]
    /\ room = [status |-> "ingame", day |-> 1]
    /\ settings = [roles |-> [NoRoles EXCEPT !["impostor"] = 1,
                                             !["citizen"] = 3],
                   timers |-> FormTimers]
    /\ nightActions = EmptyDocs
    /\ deathLog = EmptyDocs
    /\ voteHistory = EmptyBag
    /\ timers = (1 :> [phase |-> "meeting", remaining |-> TimerSecs])
    /\ activeTimer = 1
    /\ roleCheckOn = FALSE
    /\ voteCheckOn = FALSE
    /\ pendRead = 0
    /\ pendVoted = 0
    /\ pendImp = 0
    /\ NoClient
    /\ currentPlayer = HostSession
    /\ NoPending
    /\ games = 1

\* a click on a vote item; the vote screen can be shown to a voter again
SubmitVoteCall(p, targetId) ==
    /\ gameState.phase = "VOTING"
    /\ p \in Alive(players)
    /\ targetId \in (Alive(players) \cap Candidates) \ {p}
    /\ Commit([submitVote(world, p, targetId) EXCEPT
                  !.voteCheckOn = voteCheckOn \/ IsHost(p)])
    /\ Keep

NextVoting ==
    \/ VoteBtn
    \/ \E p \in Users, targetId \in Candidates : SubmitVoteCall(p, targetId)
    \/ ProcessVotesCall
    \/ \E h \in 1..2 : TimerTick(h)
    \/ NextBtnVote

SpecVoting == InitVoting /\ [][NextVoting]_vars

----------------------------------------------------------------------------
\* One voting round with transitionToVoting step by step: its setState, then
\* startVotingTimer's read of the votes with the deletes it issues, then
\* each delete reaching the store. The votes left from the earlier round
\* were cast for b; the votes of this round are cast for the Candidates.

StaleTargets == {"b"}

InitRound ==
    /\ players = [p \in Users |->
           [isHost |-> p = Host, isAlive |-> TRUE, role |-> VotingRoles[p],
            roleReadConfirmed |-> TRUE]]
    /\ \E voters \in SUBSET (Users \ StaleTargets) :
           votes = [v \in voters |-> CHOOSE t \in StaleTargets : TRUE]
    /\ gameState = [exists |-> TRUE, phase |-> "MEETING_DISCUSSION",
                    version |-> 3, payload |-> << >>]
    /\ room = [status |-> "ingame", day |-> 1]
    /\ settings = [roles |-> [NoRoles EXCEPT !["impostor"] = 1,
                                             !["citizen"] = 3],
                   timers |-> FormTimers]
    /\ nightActions = EmptyDocs
    /\ deathLog = EmptyDocs
    /\ voteHistory = EmptyBag
    /\ timers = (1 :> [phase |-> "meeting", remaining |-> TimerSecs])
    /\ activeTimer = 1
    /\ roleCheckOn = FALSE
    /\ voteCheckOn = FALSE
    /\ pendRead = 0
    /\ pendVoted = 0
    /\ pendImp = 0
    /\ NoClient
    /\ currentPlayer = HostSession
    /\ NoPending
    /\ games = 1

RoundKeeps ==
    UNCHANGED <<roleCheckOn, pendRead, pendVoted, pendImp, games, client,
                inbox, currentPlayer, pendJoin, pendStart>>

\* transitionToVoting up to the end of its setState
VotingSetState ==
    /\ gameState.phase = "MEETING_DISCUSSION"
    /\ pendClear = NoClear
    /\ Commit(setState(Host, world, "VOTING", << >>))
    /\ pendClear' = [stage |-> "set", docs |-> {}]
    /\ RoundKeeps

\* startVotingTimer: getDocs of the votes, one deleteDoc issued for each doc
\* of the snapshot and not awaited, then startTimer
VotingTimerStart ==
    /\ pendClear.stage = "set"
    /\ Commit(startTimer(world, settings.timers.vote, "voting"))
    /\ pendClear' = IF DOMAIN votes = {} THEN NoClear
                    ELSE [stage |-> "del", docs |-> DOMAIN votes]
    /\ RoundKeeps

\* one of those deletes reaches the store
VoteDeleted(d) ==
    /\ pendClear.stage = "del"
    /\ d \in pendClear.docs
    /\ Commit([world EXCEPT !.votes = Drop(votes, d)])
    /\ pendClear' = IF pendClear.docs = {d} THEN NoClear
                    ELSE [pendClear EXCEPT !.docs = @ \ {d}]
    /\ RoundKeeps

NextRound ==
    \/ VotingSetState
    \/ VotingTimerStart
    \/ \E d \in Users : VoteDeleted(d)
    \/ \E p \in Users, targetId \in Candidates : SubmitVoteCall(p, targetId)
    \/ ProcessVotesCall

SpecRound == InitRound /\ [][NextRound]_vars

----------------------------------------------------------------------------
\* startGame with its read of the players and its writes as two steps, while
\* players join the lobby

StartGameRead ==
    /\ gameState.phase = "LOBBY"
    /\ room.status = "lobby"
    /\ pendStart = {}
    /\ pendStart' = {[ids |-> Snapshot(players), roles |-> settings.roles]}
    /\ Commit(world)
    /\ UNCHANGED <<roleCheckOn, pendRead, pendVoted, pendImp, games, client,
                   inbox, currentPlayer, pendJoin, pendClear>>

StartGameAssign ==
    /\ \E s \in pendStart :
          /\ \E shuffledRoles \in
                    shuffleArray(assignRoles(Len(s.ids), s.roles)) :
                 Commit(startGameAssign(Host, world, s.ids, shuffledRoles))
          /\ pendStart' = pendStart \ {s}
    /\ games' = games + 1
    /\ UNCHANGED <<roleCheckOn, pendRead, pendVoted, pendImp, client, inbox,
                   currentPlayer, pendJoin, pendClear>>

NextAssign ==
    \/ StartGameRead
    \/ StartGameAssign
    \/ \E p \in Users : JoinRoom(p)

SpecAssign == InitRoles /\ [][NextAssign]_vars

----------------------------------------------------------------------------
\* A re-join during the game: joinRoom with its reads and its write as two
\* steps, next to the vote tally and the night resolution

RejoinRoles == [h |-> "citizen", a |-> "impostor", b |-> "citizen",
                c |-> "citizen"]

InitRejoin ==
    /\ players = [p \in Users |->
           [isHost |-> p = Host, isAlive |-> TRUE, role |-> RejoinRoles[p],
            roleReadConfirmed |-> TRUE]]
    /\ \/ /\ gameState = [exists |-> TRUE, phase |-> "VOTING",
                          version |-> 3, payload |-> << >>]
          /\ \E ballot \in [Users -> Candidates \cup {none}] :
                 votes = [v \in {u \in Users : ballot[u] # none} |->
                             ballot[v]]
          /\ nightActions = EmptyDocs
       \/ /\ gameState = [exists |-> TRUE, phase |-> "NIGHT_IMPOSTOR",
                          version |-> 7, payload |-> << >>]
          /\ votes = EmptyDocs
          /\ \E targetId \in Users \ {"a"} :
                 nightActions = ("a" :> [type |-> "impostor",
                                         targetId |-> targetId,
                                         submittedAt |-> 1])
    /\ room = [status |-> "ingame", day |-> 1]
    /\ settings = [roles |-> [NoRoles EXCEPT !["impostor"] = 1,
                                             !["citizen"] = 3],
                   timers |-> FormTimers]
    /\ deathLog = EmptyDocs
    /\ voteHistory = EmptyBag
    /\ HostIdle
    /\ NoClient
    /\ currentPlayer = HostSession
    /\ NoPending
    /\ games = 1

RejoinKeeps ==
    UNCHANGED <<roleCheckOn, pendRead, pendVoted, pendImp, games, client,
                inbox, pendStart, pendClear>>

\* joinBtn with the code of the room: joinRoom up to its setDoc; it throws
\* if the room has left the lobby and the player doc is missing
RejoinRead(p) ==
    /\ p \notin DOMAIN pendJoin
    /\ room.status = "lobby" \/ p \in DOMAIN players
    /\ pendJoin' = (p :> joinRoomRead(world, p)) @@ pendJoin
    /\ Commit(world)
    /\ UNCHANGED currentPlayer
    /\ RejoinKeeps

\* the rest of that call
RejoinWrite(p) ==
    /\ p \in DOMAIN pendJoin
    /\ Commit(joinRoomWrite(world, p, FALSE, pendJoin[p]))
    /\ pendJoin' = Drop(pendJoin, p)
    /\ currentPlayer' = [currentPlayer EXCEPT
                            ![p] = [room |-> "R",
                                    isHost |-> players'[p].isHost]]
    /\ RejoinKeeps

NextRejoin ==
    \/ ProcessVotesCall
    \/ ProcessMorningCall
    \/ \E p \in Users : RejoinRead(p)
    \/ \E p \in Users : RejoinWrite(p)

SpecRejoin == InitRejoin /\ [][NextRejoin]_vars

----------------------------------------------------------------------------
\* Properties

\* C1 (as stated): every write of gameState stores a version greater than
\* the one it replaces, so the versions observed in a room never repeat
C1_VersionStrictlyIncreasing ==
    [][gameState' # gameState
          => gameState'.version > gameState.version]_vars

\* C1 (amended): every write of gameState raises the version by exactly one,
\* except the write of resetGameState, which stores version 0
C1_VersionStepOrReset ==
    [][gameState' # gameState
          => \/ gameState'.version = gameState.version + 1
             \/ PlayAgainBtn /\ gameState'.version = 0]_vars

\* after a reset, a setState has stored version 1 for the second time
C1_Witness ==
    /\ games = 1
    /\ room.status = "lobby"
    /\ gameState.version = 1
    /\ gameState.phase # "LOBBY"

\* the edges of the documented transition table
TransitionTable ==
    {<<"LOBBY", "ROLE_REVEAL">>,
     <<"ROLE_REVEAL", "MEETING_DISCUSSION">>,
     <<"MEETING_DISCUSSION", "VOTING">>,
     <<"VOTING", "VOTE_RESULT">>,
     <<"VOTE_RESULT", "MEETING_DISCUSSION">>,
     <<"VOTE_RESULT", "BREAK">>,
     <<"VOTE_RESULT", "GAME_RESULT">>,
     <<"BREAK", "NIGHT_SPECIAL">>,
     <<"NIGHT_SPECIAL", "NIGHT_IMPOSTOR">>,
     <<"NIGHT_IMPOSTOR", "MORNING_ANNOUNCEMENT">>,
     <<"MORNING_ANNOUNCEMENT", "MEETING_DISCUSSION">>,
     <<"MORNING_ANNOUNCEMENT", "GAME_RESULT">>}

\* C2: every change of gameState.phase is an edge of the transition table
\* or a reset to LOBBY
C2_TransitionTable ==
    [][gameState'.phase # gameState.phase
          => \/ <<gameState.phase, gameState'.phase>> \in TransitionTable
             \/ gameState'.phase = "LOBBY"]_vars

\* C3: once the phase is GAME_RESULT it stays GAME_RESULT until
\* resetGameState sets it to LOBBY
C3_GameResultTerminal ==
    [][gameState.phase = "GAME_RESULT"
          => \/ gameState'.phase = "GAME_RESULT"
             \/ PlayAgainBtn /\ gameState'.phase = "LOBBY"]_vars

\* C4: in every reachable state, each host-only operation called by a
\* player who is not the host returns the documents and the host's tasks
\* as they are
C4_NonHostNoOp ==
    \A p \in DOMAIN players :
        ~players[p].isHost
            => \A result \in HostOnlyCalls(p, world) : result = world

\* a non-host calls processVotes when the host's call would tally
C4_Witness ==
    /\ gameState.phase = "VOTING"
    /\ "a" \in DOMAIN players
    /\ ~players["a"].isHost
    /\ allVoted(world)
    /\ processVotes(Host, world) # world
    /\ processVotes("a", world) = world

\* C5: once the phase has left NIGHT_SPECIAL a call of checkEDSubmitted
\* writes nothing, and once processMorning has written
\* MORNING_ANNOUNCEMENT a call of checkImpostorSubmitted that overlapped
\* the first does not run processMorning again
C5_NightChecksIdempotent ==
    [][(\/ gameState.phase # "NIGHT_SPECIAL" /\ CheckEDSubmitted
        \/ /\ gameState.phase = "MORNING_ANNOUNCEMENT"
           /\ impostorSubmitted(nightActions)
           /\ CheckImpostorProcess)
          => UNCHANGED <<gameState, room, players, deathLog>>]_vars

\* C6: once the phase has advanced past ROLE_REVEAL a call of
\* checkAllPlayersReadRole, and once it has advanced past VOTING a call of
\* checkAllVoted, writes no gameState, restarts no timer and tallies and
\* archives no votes
C6_DayChecksIdempotent ==
    [][(\/ /\ gameState.phase # "ROLE_REVEAL"
           /\ CheckAllPlayersReadRole
        \/ /\ gameState.phase # "VOTING"
           /\ CheckAllVotedProcess)
          => UNCHANGED <<gameState, timers, activeTimer, voteHistory,
                         players, deathLog>>]_vars

\* C7: no live countdown has reached zero: the interval whose countdown
\* reaches zero is cancelled in the step that takes the timeout action, and
\* the only live countdown is this.activeTimer
C7_TimeoutOnce ==
    \A h \in DOMAIN timers : timers[h].remaining >= 1 /\ h = activeTimer

\* the voting countdown has expired with two of four votes in: the tally
\* was forced and no countdown is left
C7_Witness ==
    /\ gameState.phase = "VOTE_RESULT"
    /\ Field(gameState, "result") = "tie"
    /\ Cardinality(Alive(players)) = 4
    /\ Cardinality(DOMAIN votes) = 2
    /\ timers = << >>
    /\ activeTimer = 0
    /\ pendVoted = 0

ResetState ==
    /\ gameState.phase = "LOBBY"
    /\ gameState.version = 0
    /\ \A p \in DOMAIN players :
          /\ players[p].isAlive
          /\ players[p].role = none
          /\ ~players[p].roleReadConfirmed
    /\ votes = EmptyDocs
    /\ nightActions = EmptyDocs
    /\ deathLog = EmptyDocs
    /\ voteHistory = EmptyBag
    /\ room.day = 1
    /\ room.status = "lobby"

\* C8: the state right after the host's resetGameState has phase LOBBY and
\* version 0, every player alive with no role and unconfirmed, no votes,
\* nightActions, deathLog or voteHistory docs, day 1 and status lobby
C8_ResetRoundTrip ==
    [][PlayAgainBtn => ResetState']_vars

\* a game has been played and reset
C8_Witness ==
    /\ games = 1
    /\ gameState.exists
    /\ gameState.phase = "LOBBY"
    /\ gameState.version = 0
    /\ Cardinality(DOMAIN players) = 4

Holders(r) == {p \in DOMAIN players : players[p].role = r}

\* C9: assignRoles returns playerCount roles with the multiset of the role
\* counts, every shuffle keeps that multiset, and after startGame every
\* player holds one role and each role r is held by roleCounts[r] players
C9_RoleCounts ==
    LET n == Cardinality(DOMAIN players)
        deck == assignRoles(n, settings.roles)
        times(d, r) == Cardinality({i \in 1..Len(d) : d[i] = r})
    IN  /\ Len(deck) = n
        /\ \A r \in RoleIds : times(deck, r) = settings.roles[r]
        /\ \A d \in shuffleArray(deck) :
               Len(d) = n /\ \A r \in RoleIds : times(d, r) = times(deck, r)
        /\ gameState.phase = "ROLE_REVEAL"
               => /\ \A p \in DOMAIN players : players[p].role \in RoleIds
                  /\ \A r \in RoleIds :
                         Cardinality(Holders(r)) = settings.roles[r]

\* four players were dealt two impostors, an engineer and a bug
C9_Witness ==
    /\ gameState.phase = "ROLE_REVEAL"
    /\ Cardinality(DOMAIN players) = 4
    /\ settings.roles["impostor"] = 2
    /\ settings.roles["engineer"] = 1
    /\ players["h"].role = "bug"
    /\ players["a"].role = "impostor"

votesFor(t) == Cardinality({v \in DOMAIN votes : votes[v] = t})

TopTargets ==
    {t \in {votes[v] : v \in DOMAIN votes} :
        \A u \in {votes[v] : v \in DOMAIN votes} : votesFor(u) <= votesFor(t)}

\* C10: processVotes reports a tie exactly when two or more targets share
\* the maximum vote count; it then reports exactly those targets as
\* tiedPlayers, changes no isAlive, writes no deathLog entry and sets phase
\* VOTE_RESULT with result tie
C10_TieTally ==
    [][ProcessVotesCall
          => LET tie == Cardinality(TopTargets) >= 2
                 reported == Field(gameState', "result") = "tie"
                 tied == Field(gameState', "tiedPlayers")
             IN  /\ tie <=> reported
                 /\ tie => /\ gameState'.phase = "VOTE_RESULT"
                           /\ Elems(tied) = TopTargets
                           /\ Len(tied) = Cardinality(TopTargets)
                           /\ players' = players
                           /\ deathLog' = deathLog]_vars

\* the votes a:2, b:2, c:1 were tallied as a tie of a and b
C10_Witness ==
    /\ gameState.phase = "VOTE_RESULT"
    /\ Field(gameState, "result") = "tie"
    /\ votesFor("a") = 2
    /\ votesFor("b") = 2
    /\ votesFor("c") = 1
    /\ Elems(Field(gameState, "tiedPlayers")) = {"a", "b"}
    /\ Alive(players) = TallyUsers
    /\ deathLog = EmptyDocs

\* C11: when exactly one target has the maximum vote count and its player
\* record exists, processVotes sets that player's isAlive to false, writes
\* a deathLog entry keyed by that player with cause vote, the current room
\* day and the player's role, and sets phase VOTE_RESULT with result killed
\* and that victimId; no other player's record changes
C11_SoleTargetKilled ==
    [][ProcessVotesCall
          => \A v \in DOMAIN players :
                 TopTargets = {v}
                 => /\ ~players'[v].isAlive
                    /\ v \in DOMAIN deathLog'
                    /\ deathLog'[v] = [cause |-> "vote", day |-> room.day,
                                       role |-> players[v].role]
                    /\ DOMAIN deathLog' = DOMAIN deathLog \cup {v}
                    /\ gameState'.phase = "VOTE_RESULT"
                    /\ Field(gameState', "result") = "killed"
                    /\ Field(gameState', "victimId") = v
                    /\ DOMAIN players' = DOMAIN players
                    /\ \A p \in DOMAIN players \ {v} :
                           players'[p] = players[p]]_vars

\* on day 2 the impostor a got three of four votes and was executed
C11_Witness ==
    /\ gameState.phase = "VOTE_RESULT"
    /\ Field(gameState, "result") = "killed"
    /\ Field(gameState, "victimId") = "a"
    /\ votesFor("a") = 3
    /\ votesFor("b") = 1
    /\ ~players["a"].isAlive
    /\ Alive(players) = TallyUsers \ {"a"}
    /\ "a" \in DOMAIN deathLog
    /\ deathLog["a"] = [cause |-> "vote", day |-> 2, role |-> "impostor"]

\* the night as the claims describe it, read off the stored action docs
ImpostorDocs == {a \in DOMAIN nightActions : nightActions[a].type = "impostor"}

EarliestImpostors ==
    {a \in ImpostorDocs :
        \A b \in ImpostorDocs :
            nightActions[a].submittedAt <= nightActions[b].submittedAt}

SelectedTargets == {nightActions[a].targetId : a \in EarliestImpostors}

BugChecked(t) ==
    /\ players[t].isAlive
    /\ players[t].role = "bug"
    /\ \E a \in DOMAIN nightActions :
           /\ nightActions[a].type = "engineer"
           /\ nightActions[a].targetId = t

Protected(t) ==
    \E a \in DOMAIN nightActions :
        /\ nightActions[a].type = "fallen_angel"
        /\ nightActions[a].targetId = t

Eligible(t) ==
    /\ players[t].isAlive
    /\ players[t].role # "bug"
    /\ ~Protected(t)

Announced(gs) == Elems(gs.payload.victims)

DiedOf(t, cause) ==
    /\ ~players'[t].isAlive
    /\ t \in DOMAIN deathLog'
    /\ deathLog'[t].cause = cause
    /\ t \in Announced(gameState')

Untouched(t) ==
    /\ players'[t] = players[t]
    /\ t \notin DOMAIN deathLog'
    /\ t \notin Announced(gameState')

\* C12: in processMorning every engineer action whose target is alive and
\* has role bug kills that target with cause bug_death, independently of
\* the impostor kill: when the impostor's target is a different living,
\* unprotected, non-bug player, both die in the same night, the bug with
\* cause bug_death and the other with cause impostor
C12_EngineerKillsBug ==
    [][ProcessMorningCall
          => \A t \in DOMAIN players :
                 BugChecked(t)
                 => /\ DiedOf(t, "bug_death")
                    /\ \A k \in DOMAIN players :
                           SelectedTargets = {k} /\ Eligible(k)
                           => DiedOf(k, "impostor")]_vars

\* the engineer checked the bug e and the only impostor action was on the
\* citizen h: both are dead in the morning
C12_Witness ==
    /\ gameState.phase = "MORNING_ANNOUNCEMENT"
    /\ "c" \in DOMAIN nightActions /\ nightActions["c"].targetId = "e"
    /\ ImpostorDocs = {"a"} /\ nightActions["a"].targetId = "h"
    /\ "d" \in DOMAIN nightActions /\ nightActions["d"].targetId = "c"
    /\ DOMAIN deathLog = {"e", "h"}
    /\ deathLog["e"] = [cause |-> "bug_death", day |-> 1, role |-> "bug"]
    /\ deathLog["h"] = [cause |-> "impostor", day |-> 1, role |-> "citizen"]
    /\ Announced(gameState) = {"e", "h"}
    /\ ~players["e"].isAlive /\ ~players["h"].isAlive

\* C13 as stated: a living player that is the target of the selected
\* impostor action and of a fallen_angel action stays alive, is absent from
\* the announced victims and gets no deathLog entry
C13_ProtectedSurvives ==
    [][ProcessMorningCall
          => \A k \in DOMAIN players :
                 SelectedTargets = {k} /\ players[k].isAlive /\ Protected(k)
                 => Untouched(k)]_vars

\* C13: a fallen_angel action on the target of the selected impostor action
\* cancels the impostor kill only: the target is untouched unless it is a
\* living bug that an engineer checked, which dies with cause bug_death
C13_ProtectionCancelsImpostorKill ==
    [][ProcessMorningCall
          => \A k \in DOMAIN players :
                 SelectedTargets = {k} /\ players[k].isAlive /\ Protected(k)
                 => IF BugChecked(k) THEN DiedOf(k, "bug_death")
                    ELSE Untouched(k)]_vars

\* the impostor and the fallen angel both chose the citizen h, who is alive
\* in the morning with no death logged
C13_Witness ==
    /\ gameState.phase = "MORNING_ANNOUNCEMENT"
    /\ ImpostorDocs = {"a"} /\ nightActions["a"].targetId = "h"
    /\ "d" \in DOMAIN nightActions /\ nightActions["d"].targetId = "h"
    /\ players["h"].isAlive
    /\ "h" \notin DOMAIN deathLog
    /\ "h" \notin Announced(gameState)

\* C14 as stated: the kill is applied to the target of every impostor
\* action that has the smallest submittedAt, whatever its position among
\* the docs, and the targets of the later submissions are unaffected
C14_SmallestSubmittedAtWins ==
    [][ProcessMorningCall
          => /\ \A a \in EarliestImpostors :
                    Eligible(nightActions[a].targetId)
                    => DiedOf(nightActions[a].targetId, "impostor")
             /\ \A b \in ImpostorDocs \ EarliestImpostors :
                    nightActions[b].targetId \notin SelectedTargets
                       /\ ~BugChecked(nightActions[b].targetId)
                    => Untouched(nightActions[b].targetId)]_vars

\* the first, in document order, of the impostor actions that share the
\* smallest submittedAt
BindingImpostor ==
    CHOOSE a \in EarliestImpostors :
        \A b \in EarliestImpostors :
            \E i, j \in 1..Len(UserOrder) :
                UserOrder[i] = a /\ UserOrder[j] = b /\ i <= j

\* C14: the impostor kill is applied only to the target of the impostor
\* action with the smallest submittedAt, at whatever position of the docs
\* it is stored; of several actions that share the smallest submittedAt the
\* first in document order is the binding one; the targets of all other
\* impostor actions are unaffected
C14_EarliestImpostorBinds ==
    [][ProcessMorningCall
          => LET k == nightActions[BindingImpostor].targetId
             IN  /\ Eligible(k) => DiedOf(k, "impostor")
                 /\ \A p \in DOMAIN players' :
                        p \in DOMAIN deathLog' /\ deathLog'[p].cause = "impostor"
                        => p = k
                 /\ \A b \in ImpostorDocs :
                        nightActions[b].targetId # k
                           /\ ~BugChecked(nightActions[b].targetId)
                        => Untouched(nightActions[b].targetId)]_vars

\* b, stored after a, submitted first: b's target c died, a's target h
\* is untouched
C14_Witness ==
    /\ gameState.phase = "MORNING_ANNOUNCEMENT"
    /\ ImpostorDocs = {"a", "b"}
    /\ nightActions["a"] = [type |-> "impostor", targetId |-> "h",
                            submittedAt |-> 2]
    /\ nightActions["b"] = [type |-> "impostor", targetId |-> "c",
                            submittedAt |-> 1]
    /\ ~players["c"].isAlive
    /\ "c" \in DOMAIN deathLog /\ deathLog["c"].cause = "impostor"
    /\ players["h"].isAlive
    /\ "h" \notin DOMAIN deathLog

\* C15: if the selected impostor target has role bug the attack fails: no
\* player of role bug is logged or announced with cause impostor, and a
\* bug that no engineer checked stays alive with no deathLog entry
C15_BugImmuneToImpostor ==
    [][ProcessMorningCall
          => /\ \A k \in DOMAIN players :
                    SelectedTargets = {k} /\ players[k].isAlive
                       /\ players[k].role = "bug"
                    => IF BugChecked(k) THEN DiedOf(k, "bug_death")
                       ELSE Untouched(k)
             /\ \A p \in DOMAIN deathLog' :
                    deathLog'[p].cause = "impostor"
                    => players[p].role # "bug"]_vars

\* the only impostor action was on the living bug e, which the engineer
\* did not check: e is alive in the morning and nobody died
C15_Witness ==
    /\ gameState.phase = "MORNING_ANNOUNCEMENT"
    /\ ImpostorDocs = {"a"} /\ nightActions["a"].targetId = "e"
    /\ "c" \in DOMAIN nightActions /\ nightActions["c"].targetId = "h"
    /\ players["e"].isAlive /\ players["e"].role = "bug"
    /\ deathLog = EmptyDocs
    /\ Announced(gameState) = {}

\* the living players by side, counted from the player docs
Living(r) == {p \in DOMAIN players : players[p].isAlive /\ players[p].role = r}

LivingOthers ==
    {p \in DOMAIN players : players[p].isAlive /\ players[p].role # "impostor"}

ImpostorsMet ==
    /\ Cardinality(Living("impostor")) >= Cardinality(LivingOthers)
    /\ Cardinality(Living("impostor")) > 0

CitizensMet == Living("impostor") = {}

WinCheckCall == ProceedAfterVoteCall \/ ProceedAfterMorningCall

\* what the caller of checkWinCondition wrote: the winner of GAME_RESULT,
\* or none when the game goes on
Declared(gs) ==
    IF gs.phase = "GAME_RESULT" THEN Field(gs, "winner") ELSE none

\* C16: with no living bug, checkWinCondition returns impostor if and only
\* if living impostors >= living non-impostor players and living impostors
\* > 0, returns citizen if and only if living impostors = 0, and returns
\* null otherwise; only role impostor counts on the impostor side
C16_WinnerWithoutBug ==
    [][WinCheckCall /\ Living("bug") = {}
          => /\ Declared(gameState') = "impostor" <=> ImpostorsMet
             /\ Declared(gameState') = "citizen" <=> CitizensMet
             /\ Declared(gameState') = none
                   <=> ~ImpostorsMet /\ ~CitizensMet
             /\ Declared(gameState') = none
                   => gameState'.phase \in {"BREAK", "MEETING_DISCUSSION"}
             /\ Declared(gameState') \in {"impostor", "citizen", none}]_vars

\* one impostor, one impostor_follower and one citizen are alive and the
\* game went on to the break
C16_Witness ==
    /\ gameState.phase = "BREAK"
    /\ Cardinality(Living("impostor")) = 1
    /\ Cardinality(Living("impostor_follower")) = 1
    /\ Cardinality(Living("citizen")) = 1
    /\ Living("bug") = {}

\* C17: whenever the impostor or the citizen win condition is numerically
\* met and at least one bug is alive, checkWinCondition returns bug instead
\* of impostor or citizen; a living bug never produces a winner when
\* neither numeric condition holds
C17_BugPreempts ==
    [][WinCheckCall /\ Living("bug") # {}
          => /\ ImpostorsMet \/ CitizensMet => Declared(gameState') = "bug"
             /\ ~ImpostorsMet /\ ~CitizensMet
                   => /\ Declared(gameState') = none
                      /\ gameState'.phase \in {"BREAK", "MEETING_DISCUSSION"}
         ]_vars

\* one impostor and one bug were the only players alive and the game ended
\* with winner bug
C17_Witness ==
    /\ gameState.phase = "GAME_RESULT"
    /\ Field(gameState, "winner") = "bug"
    /\ Cardinality(Living("impostor")) = 1
    /\ Cardinality(Living("bug")) = 1
    /\ Cardinality(Alive(players)) = 2

\* the client shows the authoritative phase at the authoritative version
Synced ==
    gameState.exists
    => /\ client.localVersion = gameState.version
       /\ client.screen.phase = gameState.phase

HostWrites == (\E phase \in GAME_PHASES : SyncSetState(phase)) \/ SyncReset

\* a render callback is still waiting although the callback of a later
\* snapshot has run
Overtaken ==
    /\ client.screen.version = client.localVersion
    /\ \E r \in client.renderQ : r.version # client.localVersion

\* C18: if a client has missed the notification of a gameState write and
\* the host writes nothing further, the guard eventually pulls the record
\* and from then on the client's applied phase and localVersion equal the
\* authoritative phase and version
\* (the render callbacks run in the order of their snapshots)
C18_GuardRecovers ==
    (<>Overtaken) \/ ([]<><<HostWrites>>_vars) \/ (<>[]Synced)

\* C19: the listener re-renders on a snapshot if and only if the
\* snapshot's version differs from localVersion, and then sets
\* localVersion to that version; a duplicate delivery of the version
\* already applied changes neither localVersion nor the screen and
\* schedules no render
C19_RenderIffVersionDiffers ==
    [][\A n \in inbox :
           OnSnapshot(n)
           => IF n.exists /\ n.version # client.localVersion
              THEN /\ client'.localVersion = n.version
                   /\ client'.renderQ = client.renderQ
                          \cup {[version |-> n.version, phase |-> n.phase]}
                   /\ client'.screen = client.screen
              ELSE /\ client'.localVersion = client.localVersion
                   /\ client'.renderQ = client.renderQ
                   /\ client'.screen = client.screen]_vars

\* version 1 is on the screen and its snapshot is about to be delivered a
\* second time
C19_Witness ==
    /\ client.localVersion = 1
    /\ client.screen = [version |-> 1, phase |-> "ROLE_REVEAL"]
    /\ client.renderQ = {}
    /\ inbox = {[exists |-> TRUE, version |-> 1, phase |-> "ROLE_REVEAL",
                 again |-> FALSE]}
    /\ client.idle = 0

Hosts == {p \in DOMAIN players : players[p].isHost}

\* C20: in every reachable state of an existing room exactly one player
\* document of that room has isHost = true, under any sequence of
\* createRoom (with any generated room code), joinRoom, kickPlayer and
\* leaveRoom
C20_ExactlyOneHost == room # NoRoom => Cardinality(Hosts) = 1

\* C21: within one game a player's isAlive never changes from false back
\* to true, under any interleaving of processVotes, processMorning and a
\* re-join by that player through joinRoom
C21_DeathIrreversible ==
    [][\A p \in DOMAIN players \cap DOMAIN players' :
           ~players[p].isAlive => ~players'[p].isAlive]_vars

\* a step resolves a night
NightResolved ==
    /\ gameState.phase = "NIGHT_IMPOSTOR"
    /\ gameState'.phase = "MORNING_ANNOUNCEMENT"

\* C22: each night resolved (NIGHT_IMPOSTOR -> MORNING_ANNOUNCEMENT) raises
\* room.day by exactly one, also with overlapping checkImpostorSubmitted
\* calls; room.day changes at no other time except the reset to 1, and is
\* always >= 1
C22_DayOncePerNight ==
    [][/\ NightResolved => room'.day = room.day + 1
       /\ room'.day # room.day =>
              \/ NightResolved
              \/ gameState'.phase = "LOBBY" /\ room'.day = 1
       /\ room'.day >= 1]_vars

\* the phase whose countdown a timer is
TimerPhase == [meeting |-> "MEETING_DISCUSSION", voting |-> "VOTING",
               break |-> "BREAK"]

\* C23: when the host leaves a phase by an explicit action or an aggregation
\* check while its countdown is running, that countdown is cancelled: the
\* timeout action of a countdown runs only in the phase it was started for
C23_LeftPhaseCountdownCancelled ==
    [][\A h \in DOMAIN timers :
           timers[h].remaining <= 1 /\ TimerTick(h)
               => gameState.phase = TimerPhase[timers[h].phase]]_vars

\* the payload fields setState writes during a game
PayloadFields == {"winner", "result", "victimId", "victimName",
                  "tiedPlayers", "voteCounts", "victims"}

\* C24: after resetGameState the gameState record holds phase, version and
\* the bookkeeping fields only: no payload field written in the previous
\* game is still present
C24_ResetDropsPayload ==
    [][PlayAgainBtn /\ DOMAIN gameState.payload \cap PayloadFields # {}
           => DOMAIN gameState'.payload \cap PayloadFields = {}]_vars

\* a finished game that named a winner and a vote victim has been reset
C24_Witness ==
    /\ gameState.phase = "LOBBY"
    /\ gameState.version = 0
    /\ gameState.payload = << >>
    /\ room = [status |-> "lobby", day |-> 1]
    /\ \A p \in DOMAIN players : players[p].role = none

\* C25: if one of the deletes or player updates inside resetGameState fails,
\* gameState is still re-seeded to phase LOBBY, version 0, with room.day 1
\* and room.status lobby
C25_FailedWriteDoesNotBlockReset ==
    [][ResetFailingCall =>
           /\ gameState'.phase = "LOBBY"
           /\ gameState'.version = 0
           /\ room'.day = 1
           /\ room'.status = "lobby"]_vars

\* C26: if the player doc of the unique plurality target no longer exists
\* when processVotes runs, the phase still advances to VOTE_RESULT with
\* result killed, that victimId and a placeholder victimName; no player doc
\* and no deathLog entry is created and no player's isAlive changes
C26_MissingTargetStillResolves ==
    [][ProcessVotesCall
          => \A v \in TopTargets :
                 TopTargets = {v} /\ v \notin DOMAIN players
                 => /\ gameState'.phase = "VOTE_RESULT"
                    /\ gameState'.version = gameState.version + 1
                    /\ Field(gameState', "result") = "killed"
                    /\ Field(gameState', "victimId") = v
                    /\ Field(gameState', "victimName") = "Unknown (Left)"
                    /\ players' = players
                    /\ deathLog' = deathLog]_vars

\* d has left the game and was voted out by three of the four others
C26_Witness ==
    /\ gameState.phase = "VOTE_RESULT"
    /\ Field(gameState, "result") = "killed"
    /\ Field(gameState, "victimId") = "d"
    /\ Field(gameState, "victimName") = "Unknown (Left)"
    /\ "d" \notin DOMAIN players
    /\ votesFor("d") = 3
    /\ votesFor("a") = 1
    /\ Alive(players) = TallyUsers \ {"d"}
    /\ deathLog = EmptyDocs

\* a step concludes a voting round
RoundEnds ==
    /\ gameState.phase = "VOTING"
    /\ gameState'.phase = "VOTE_RESULT"

\* one entry per vote of the round, with the current room day
RoundEntries ==
    SetToBag({[day |-> room.day, voterId |-> v, targetId |-> votes[v]] :
              v \in DOMAIN votes})

\* C27: a voting round that concludes with a kill adds exactly one
\* voteHistory entry {day, voterId, targetId} per vote of the round, a tie
\* adds none, and no vote is archived more than once, whatever triggers the
\* tally (all-voted check, timer expiry, or both)
C27_VoteArchivedOnce ==
    [][/\ RoundEnds /\ Field(gameState', "result") = "killed"
              => voteHistory' = voteHistory (+) RoundEntries
       /\ RoundEnds /\ Field(gameState', "result") = "tie"
              => voteHistory' = voteHistory
       /\ voteHistory' # voteHistory
              => RoundEnds \/ voteHistory' = EmptyBag]_vars

C29_NightStartsEmpty ==
    [][/\ gameState'.phase = "NIGHT_SPECIAL" /\ gameState' # gameState
              => nightActions' = EmptyDocs
       /\ nightActions' # nightActions
              => \/ nightActions' = EmptyDocs
                 \/ /\ gameState.phase \in {"NIGHT_SPECIAL", "NIGHT_IMPOSTOR"}
                    /\ \E p \in DOMAIN players \ DOMAIN nightActions :
                           /\ DOMAIN nightActions'
                                  = DOMAIN nightActions \cup {p}
                           /\ \A q \in DOMAIN nightActions :
                                  nightActions'[q] = nightActions[q]]_vars

\* the second night has begun after a night with an impostor kill: the
\* actions of the first night are gone
C29_Witness ==
    /\ gameState.phase = "NIGHT_SPECIAL"
    /\ room.day = 2
    /\ nightActions = EmptyDocs
    /\ \E p \in DOMAIN deathLog :
           deathLog[p].cause = "impostor" /\ deathLog[p].day = 1

\* C30: a game starts (phase leaves LOBBY for ROLE_REVEAL) only when the
\* configured role counts sum to the number of players in the room at the
\* moment the roles are assigned and roles.impostor >= 1
C30_StartOnlyWhenCountsMatch ==
    [][gameState.phase = "LOBBY" /\ gameState'.phase = "ROLE_REVEAL"
          => /\ totalRoles(settings'.roles) = Cardinality(DOMAIN players)
             /\ settings'.roles["impostor"] >= 1]_vars

\* the living players on the citizen side: everyone but impostors and bugs
CitizenSide ==
    {p \in DOMAIN players :
        players[p].isAlive /\ players[p].role \notin {"impostor", "bug"}}

\* C31: living bugs are not counted among the citizen-aligned players the
\* living impostors are compared against: a winner is declared exactly when
\* no impostor lives or the living impostors are at least as many as the
\* living players other than impostors and bugs
C31_BugsNotOnCitizenSide ==
    [][WinCheckCall
          => (Declared(gameState') # none
                <=> \/ Living("impostor") = {}
                    \/ Cardinality(Living("impostor"))
                           >= Cardinality(CitizenSide))]_vars

\* the host's leaveRoom
HostLeaves ==
    /\ currentPlayer[Host].isHost
    /\ LeaveRoom(Host)

\* C32: after the host's leaveRoom the teardown is full: the room doc is
\* gone and no doc of the room remains in players, settings, gameState,
\* votes, nightActions, deathLog or voteHistory, and its timers are removed
C32_HostLeaveTearsDown ==
    [][HostLeaves
          => /\ room' = NoRoom
             /\ players' = EmptyDocs
             /\ settings' = NoSettings
             /\ ~gameState'.exists
             /\ votes' = EmptyDocs
             /\ nightActions' = EmptyDocs
             /\ deathLog' = EmptyDocs
             /\ voteHistory' = EmptyBag
             /\ timers' = << >>]_vars

\* C33: the death log is append-only within a game: an entry that exists is
\* not modified, replaced or deleted by a later processVotes or
\* processMorning; entries disappear only through resetGameState
C33_DeathLogAppendOnly ==
    [][\/ \A p \in DOMAIN deathLog :
              p \in DOMAIN deathLog' /\ deathLog'[p] = deathLog[p]
       \/ PlayAgainBtn /\ deathLog' = EmptyDocs]_vars

\* C34: whenever the client's last-applied version equals the authoritative
\* version, the phase it applied with that version is the authoritative
\* phase, across any sequence of host writes including resetGameState
C34_VersionIdentifiesPhase ==
    gameState.exists /\ client.localVersion = gameState.version
        => client.localPhase = gameState.phase

\* the first game is in progress or has not begun: no reset has happened yet
NoResetYet == games = 0 \/ (games = 1 /\ gameState.phase # "LOBBY")

\* C35: under out-of-order delivery of change notifications a client never
\* applies a gameState older than one it has applied already: between
\* resets its localVersion is non-decreasing
C35_NoOlderStateApplied ==
    [][NoResetYet' => client'.localVersion >= client.localVersion]_vars

\* C36: if the voting countdown expires while no vote has been submitted,
\* the forced tally still moves the game out of VOTING, to VOTE_RESULT
C36_EmptyTallyLeavesVoting ==
    [][\A h \in DOMAIN timers :
           /\ gameState.phase = "VOTING"
           /\ timers[h].phase = "voting"
           /\ timers[h].remaining <= 1
           /\ votes = EmptyDocs
           /\ TimerTick(h)
           => gameState'.phase = "VOTE_RESULT"]_vars

\* C37: a vote submitted by a living player after gameState.phase became
\* VOTING is still there when the round is tallied: the clearing of the
\* earlier round's votes never deletes a vote of the new round
C37_NewVotesSurviveClearing ==
    [][gameState.phase = "VOTING" /\ gameState'.phase = "VOTING"
          => \A p \in DOMAIN votes :
                 votes[p] \in Candidates => p \in DOMAIN votes']_vars

\* C38: whenever gameState.phase is BREAK, NIGHT_SPECIAL or NIGHT_IMPOSTOR at
\* least one impostor is alive and the living impostors are fewer than the
\* living non-impostors: no night cycle in a position that has a winner
C38_NoNightInWonPosition ==
    gameState.phase \in {"BREAK", "NIGHT_SPECIAL", "NIGHT_IMPOSTOR"}
        => /\ Living("impostor") # {}
           /\ Cardinality(Living("impostor")) < Cardinality(LivingOthers)

\* C39: whenever gameState.phase is not LOBBY every player doc of the room
\* has a role, also when a player joins while startGame is running
C39_EveryPlayerHasRole ==
    gameState.phase # "LOBBY"
        => \A p \in DOMAIN players : players[p].role # none

\* C40: once resetGameState has completed, gameState.phase stays LOBBY until
\* the host starts a game: no countdown started before the reset and no
\* aggregation check changes the phase
C40_LobbyUntilStart ==
    [][games >= 1 /\ gameState.exists /\ gameState.phase = "LOBBY"
          => \/ gameState'.phase = "LOBBY"
             \/ ~gameState'.exists
             \/ \E roles \in RoleConfigs : StartGameBtn(roles)]_vars

====
